---- MODULE Spec2Model ----
(***************************************************************************)
(* Governance core of PureCipher/xsecuremcp: the provenance ledger         *)
(* (src/src/fastmcp/ledger/ledger.py) and its Merkle tree                  *)
(* (src/src/fastmcp/ledger/merkle.py).                                     *)
(*                                                                         *)
(* SHA-256 is modelled as an injective constructor: the digest of a        *)
(* content is the tuple of that content.  A hex digest has a fixed length, *)
(* so the concatenation left + right of two digests determines both, and   *)
(* the digest of a concatenation is the tuple <<"node", left, right>>.     *)
(* Python's None is the empty tuple.                                       *)
(***************************************************************************)
EXTENDS Integers, Sequences, FiniteSets, TLC

\* ------------------------------------------------------------------ bounds
\* Number of distinct leaf digests offered to a Merkle tree.
NumLeafVals == 3
\* Longest leaf list a Merkle tree is built from.
MaxLeaves == 4
\* Most entries a ledger run stores.
MaxEntries == 4
\* Largest block size a run is configured with (the source's default of 100
\* entries per block is scaled down to 1..MaxBlockSize).
MaxBlockSize == 3
\* Last reading of the clock.
MaxTime == 1
\* Most stored fields an outside party overwrites.
MaxTamper == 1
\* Most entries of a ledger whose store is tampered with.
MaxTamperEntries == 3

None == <<>>

\* =================================================================== merkle

\* hashlib.sha256((left + right).encode()).hexdigest()
NodeHash(left, right) == <<"node", left, right>>

\* One pass of the while loop of _build_tree: pair (i, i+1), the last node
\* paired with itself when the level has an odd length.
NextLevel(level) ==
  [k \in 1..((Len(level) + 1) \div 2) |->
     NodeHash(level[2 * k - 1],
              IF 2 * k <= Len(level) THEN level[2 * k] ELSE level[2 * k - 1])]

RECURSIVE TreeLevels(_)
\* tree_levels of _build_tree, from the leaves up to the level of length 1.
TreeLevels(level) ==
  IF Len(level) <= 1 THEN <<level>>
  ELSE <<level>> \o TreeLevels(NextLevel(level))

\* MerkleTree.__init__ / _build_tree: a single leaf is its own root and
\* leaves tree_data empty.
MerkleTree(leaf_hashes) ==
  IF Len(leaf_hashes) = 1
  THEN [leaf_hashes |-> leaf_hashes, tree_data |-> <<>>,
        root_hash |-> leaf_hashes[1]]
  ELSE LET levels == TreeLevels(leaf_hashes)
       IN  [leaf_hashes |-> leaf_hashes, tree_data |-> levels,
            root_hash |-> levels[Len(levels)][1]]

\* MerkleTree.get_root
get_root(tree) == tree.root_hash

\* list.index: the first position holding the value, 0 when absent
\* (positions are 1-based here, 0-based in the source).
IndexOf(seq, v) ==
  IF \E i \in 1..Len(seq) : seq[i] = v
  THEN CHOOSE i \in 1..Len(seq) : seq[i] = v /\ \A j \in 1..(i - 1) : seq[j] # v
  ELSE 0

RECURSIVE ProofPath(_, _, _)
\* The loop of generate_proof over tree_data[level], level = lvl-1 in the
\* source's 0-based counting; idx0 is the source's 0-based current_index.
\* A sibling index past the end of the level adds no path element.
ProofPath(tree_data, lvl, idx0) ==
  IF lvl > Len(tree_data) - 1 THEN <<>>
  ELSE LET current_level == tree_data[lvl]
           sibling_index == IF idx0 % 2 = 0 THEN idx0 + 1 ELSE idx0 - 1
           position      == IF idx0 % 2 = 0 THEN "right" ELSE "left"
           here == IF sibling_index < Len(current_level)
                   THEN <<[hash |-> current_level[sibling_index + 1],
                           position |-> position]>>
                   ELSE <<>>
       IN  here \o ProofPath(tree_data, lvl + 1, idx0 \div 2)

\* MerkleTree.generate_proof: None (the empty tuple) for a value that is no
\* leaf, else a one-element tuple holding the MerkleProof.
generate_proof(tree, leaf_hash) ==
  LET leaf_index == IndexOf(tree.leaf_hashes, leaf_hash)
  IN  IF leaf_index = 0 THEN None
      ELSE IF Len(tree.leaf_hashes) = 1
      THEN <<[leaf_hash |-> leaf_hash, path |-> <<>>,
              root_hash |-> tree.root_hash]>>
      ELSE <<[leaf_hash |-> leaf_hash,
              path |-> ProofPath(tree.tree_data, 1, leaf_index - 1),
              root_hash |-> tree.root_hash]>>

RECURSIVE FoldPath(_, _, _)
\* The loop of MerkleProof.verify from path element k on.
FoldPath(current_hash, path, k) ==
  IF k > Len(path) THEN current_hash
  ELSE FoldPath(IF path[k].position = "left"
                THEN NodeHash(path[k].hash, current_hash)
                ELSE NodeHash(current_hash, path[k].hash),
                path, k + 1)

\* MerkleProof.verify
verify(proof) == FoldPath(proof.leaf_hash, proof.path, 1) = proof.root_hash

\* =================================================================== ledger

VARIABLES
  entries,            \* table ledger_entries, rows in insertion order
  blocks,             \* table ledger_blocks, rows in insertion order; a
                      \* block's id is its position in this sequence
  _current_sequence,  \* ProvenanceLedger._current_sequence
  _current_block,     \* ProvenanceLedger._current_block: None or <<object>>
  _block_size,        \* ProvenanceLedger._block_size
  now,                \* datetime.utcnow()
  ret,                \* the last call: operation, arguments, outcome
  writers,            \* concurrent callers of append_event: position and
                      \* local variables of each
  m_pc,               \* a MerkleTree under test: "idle", "new", "built",
                      \* "raised"
  m_leaves,           \* the leaf_hashes given to MerkleTree.__init__
  m_tree,             \* None or <<the tree built>>
  m_leaf,             \* None or <<the argument of the last generate_proof>>
  m_proof,            \* what the last generate_proof returned
  m_verified,         \* None or <<what verify() returned for m_proof>>
  contracts,          \* table contracts, rows in insertion order; a
                      \* contract's id is its position in this sequence
  signing,            \* concurrent callers of sign_contract: position and
                      \* the contract object each holds in its session
  _policies,          \* PolicyRegistry._policies: the registered policies
                      \* in insertion order
  _evaluation_order,  \* PolicyEngine._evaluation_order
  evaluated,          \* the policies whose evaluate() the last
                      \* PolicyEngine.evaluate call awaited, in order
  monitors,           \* ReflexiveEngine.monitors: the list object the
                      \* attribute is bound to
  registered,         \* history: the monitors given to add_monitor and
                      \* not removed by remove_monitor, in order
  is_running,         \* ReflexiveEngine.is_running
  event_queue,        \* ReflexiveEngine.event_queue
  tasks,              \* the _process_events tasks start() created:
                      \* position and local variables of each
  sim,                \* the last simulate_risk call: "idle" before the
                      \* first, "eval" with its local variables while in
                      \* progress, then "returned" or "raised"
  submitted,          \* history: the actions given to submit_action, in
                      \* order
  handled,            \* history: the decisions _handle_event executed
                      \* and logged, in order
  role_hierarchy,     \* RBACPolicy.role_hierarchy
  violation_history,  \* PolicyMonitor.violation_history of the monitor
                      \* registered with the engine
  unsimulated         \* history: violation_history and the last decision
                      \* of an engine that is given the same actions and
                      \* no simulation

ledgerVars ==
  <<entries, blocks, _current_sequence, _current_block, _block_size, now, ret>>
storeVars == <<entries, blocks, _current_sequence, _current_block>>
merkleVars == <<m_pc, m_leaves, m_tree, m_leaf, m_proof, m_verified>>
contractVars == <<contracts, signing>>
policyVars == <<_policies, _evaluation_order, evaluated>>
reflexVars ==
  <<monitors, registered, is_running, event_queue, tasks, sim, submitted,
    handled>>
builtinVars == <<role_hierarchy, violation_history, unsimulated>>
engineVars == <<contractVars, policyVars, reflexVars, builtinVars>>
vars == <<ledgerVars, writers, merkleVars, engineVars>>

\* The ledger as one value, so that the steps of append_event compose.
Ledger ==
  [entries |-> entries, blocks |-> blocks,
   seq |-> _current_sequence, cur |-> _current_block]

\* LedgerEntry.calculate_hash: SHA-256 over sequence_number, event_data,
\* previous_hash and created_at.
calculate_hash(e) ==
  <<"entry", e.sequence_number, e.event_data, e.previous_hash, e.created_at>>

\* LedgerEntry.verify_integrity
entry_verify_integrity(e) == calculate_hash(e) = e.entry_hash

\* func.max over a column, 0 where the source has (result or 0).
MaxOf(S) == IF S = {} THEN 0 ELSE CHOOSE m \in S : \A x \in S : x <= m

\* ProvenanceLedger._get_next_sequence_number
_get_next_sequence_number(es) ==
  MaxOf({es[i].sequence_number : i \in 1..Len(es)}) + 1

\* ProvenanceLedger._get_next_block_number
_get_next_block_number(bs) ==
  MaxOf({bs[i].block_number : i \in 1..Len(bs)}) + 1

RECURSIVE OrderBySeq(_, _)
\* .order_by(LedgerEntry.sequence_number) over the selected positions; rows
\* of equal sequence_number come out in insertion order.
OrderBySeq(rows, S) ==
  IF S = {} THEN <<>>
  ELSE LET i == CHOOSE i \in S : \A j \in S :
                  \/ rows[i].sequence_number < rows[j].sequence_number
                  \/ /\ rows[i].sequence_number = rows[j].sequence_number
                     /\ i <= j
       IN  <<rows[i]>> \o OrderBySeq(rows, S \ {i})

\* select(LedgerEntry).where(block_id == id).order_by(sequence_number)
BlockEntries(es, id) ==
  OrderBySeq(es, {i \in 1..Len(es) : es[i].block_id = id})

\* [entry.entry_hash for entry in entries]
EntryHashes(es) == [i \in 1..Len(es) |-> es[i].entry_hash]

\* The rows select(...).where(sequence_number == n) may return first: with
\* no ORDER BY any matching row.
RowsWithSeq(es, n) == {i \in 1..Len(es) : es[i].sequence_number = n}

\* Faulty variant: a block is full only once it holds more than _block_size entries.
_should_seal_block_late(cur) ==
  cur # None /\ cur[1].entry_count > _block_size

\* ProvenanceLedger._should_seal_block
_should_seal_block(cur) ==
  cur # None /\ cur[1].entry_count >= _block_size

\* The in-memory LedgerBlock object of the stored row id.
BlockObject(bs, id) ==
  [id |-> id,
   block_number |-> bs[id].block_number,
   entry_count |-> bs[id].entry_count,
   first_entry_sequence |-> bs[id].first_entry_sequence,
   last_entry_sequence |-> bs[id].last_entry_sequence,
   merkle_root |-> bs[id].merkle_root,
   sealed_at |-> bs[id].sealed_at]

\* The row session.commit() writes for an in-memory LedgerBlock object.
BlockRow(b) ==
  [block_number |-> b.block_number,
   entry_count |-> b.entry_count,
   first_entry_sequence |-> b.first_entry_sequence,
   last_entry_sequence |-> b.last_entry_sequence,
   merkle_root |-> b.merkle_root,
   sealed_at |-> b.sealed_at]

\* ProvenanceLedger._create_new_block: the row is committed at once; the
\* unsealed merkle_root "" is None here.
_create_new_block(L) ==
  [L EXCEPT !.blocks = Append(@,
     [block_number |-> _get_next_block_number(L.blocks),
      entry_count |-> 0,
      first_entry_sequence |-> L.seq,
      last_entry_sequence |-> L.seq - 1,
      merkle_root |-> None,
      sealed_at |-> None])]

\* Faulty variant: the seal commits the root and the stamp but not the count and
\* last sequence the block object gathered in memory.
_seal_block_stale_count(L, t) ==
  IF L.cur = None THEN L
  ELSE LET b  == L.cur[1]
           es == BlockEntries(L.entries, b.id)
       IN  IF es = <<>> THEN L
           ELSE [L EXCEPT
                   !.blocks[b.id] =
                      [@ EXCEPT
                        !.merkle_root = get_root(MerkleTree(EntryHashes(es))),
                        !.sealed_at = <<t>>],
                   !.cur = None]

\* Faulty variant: the sealed block stays the current block.
_seal_block_keeps_open(L, t) ==
  IF L.cur = None THEN L
  ELSE LET b  == L.cur[1]
           es == BlockEntries(L.entries, b.id)
       IN  IF es = <<>> THEN L
           ELSE [L EXCEPT
                   !.blocks[b.id] =
                      BlockRow([b EXCEPT
                        !.merkle_root = get_root(MerkleTree(EntryHashes(es))),
                        !.sealed_at = <<t>>]),
                   !.cur = <<[b EXCEPT
                        !.merkle_root = get_root(MerkleTree(EntryHashes(es))),
                        !.sealed_at = <<t>>]>>]

\* ProvenanceLedger._seal_block at time t: no current block or no entry in
\* it returns early; else the root is computed over the block's entries in
\* sequence order, the object is committed with every change made to it
\* since it was loaded, and _current_block is reset.
_seal_block(L, t) ==
  IF L.cur = None THEN L
  ELSE LET b  == L.cur[1]
           es == BlockEntries(L.entries, b.id)
       IN  IF es = <<>> THEN L
           ELSE [L EXCEPT
                   !.blocks[b.id] =
                      BlockRow([b EXCEPT
                        !.merkle_root = get_root(MerkleTree(EntryHashes(es))),
                        !.sealed_at = <<t>>]),
                   !.cur = None]


\* ----------------------------------------------------- append_event, steps

\* Faulty variant: the previous entry is looked up under the current sequence number.
PreviousHashes_same_sequence(L) ==
  IF L.seq > 1 /\ RowsWithSeq(L.entries, L.seq) # {}
  THEN {L.entries[i].entry_hash : i \in RowsWithSeq(L.entries, L.seq)}
  ELSE {None}

\* append_event, lines 218-226: the previous entry's hash; None at sequence
\* 1 or when no row has the previous sequence number.
PreviousHashes(L) ==
  IF L.seq > 1 /\ RowsWithSeq(L.entries, L.seq - 1) # {}
  THEN {L.entries[i].entry_hash : i \in RowsWithSeq(L.entries, L.seq - 1)}
  ELSE {None}

\* append_event, lines 229-234: the new entry and its hash; block_id 0 is
\* the unset block_id.
NewEntry(seqno, ev, prev, t) ==
  LET e == [sequence_number |-> seqno, event_data |-> ev,
            previous_hash |-> prev, created_at |-> t,
            block_id |-> 0, entry_hash |-> None]
  IN  [e EXCEPT !.entry_hash = calculate_hash(e)]

\* Faulty variant: with no block open the latest stored block is taken up again.
EnsureBlock_reopens_last(L) ==
  IF L.cur = None /\ L.blocks # <<>>
  THEN [L EXCEPT !.cur = <<BlockObject(L.blocks, Len(L.blocks))>>]
  ELSE IF L.cur = None \/ _should_seal_block(L.cur)
  THEN LET L1 == _create_new_block(L)
       IN  [L1 EXCEPT !.cur = <<BlockObject(L1.blocks, Len(L1.blocks))>>]
  ELSE L

\* append_event, lines 237-238: a new block when none is open or the open
\* one is full.
EnsureBlock(L) ==
  IF L.cur = None \/ _should_seal_block(L.cur)
  THEN LET L1 == _create_new_block(L)
       IN  [L1 EXCEPT !.cur = <<BlockObject(L1.blocks, Len(L1.blocks))>>]
  ELSE L

\* append_event, line 240
SetBlock(L, e) == [e EXCEPT !.block_id = L.cur[1].id]

\* append_event, lines 243-245: the entry is committed.
AddEntry(L, e) == [L EXCEPT !.entries = Append(@, e)]

\* append_event, lines 248-250: the count and last sequence of the block
\* object change in memory; session.add without a commit writes no row.
CountEntry(L, seqno) ==
  [L EXCEPT !.cur[1].entry_count = @ + 1,
            !.cur[1].last_entry_sequence = seqno]

\* append_event, lines 253-254
SealIfFull(L, t) == IF _should_seal_block(L.cur) THEN _seal_block(L, t) ELSE L

\* append_event, line 256
NextSequence(L) == [L EXCEPT !.seq = @ + 1]

\* append_event run to its return, one writer at a time.
AppendResult(L, ev, prev, t) ==
  LET L1 == EnsureBlock(L)
      e  == SetBlock(L1, NewEntry(L.seq, ev, prev, t))
  IN  NextSequence(SealIfFull(CountEntry(AddEntry(L1, e), e.sequence_number), t))

\* ------------------------------------------------------------- verification

RECURSIVE ChainLoop(_, _, _)
\* The for loop of verify_chain_integrity from row k on.
ChainLoop(rows, k, previous_hash) ==
  IF k > Len(rows) THEN TRUE
  ELSE IF ~entry_verify_integrity(rows[k]) THEN FALSE
  ELSE IF previous_hash # None /\ rows[k].previous_hash # previous_hash
  THEN FALSE
  ELSE ChainLoop(rows, k + 1, rows[k].entry_hash)

\* ProvenanceLedger.verify_chain_integrity; end_sequence 0 stands for None
\* (the source tests "if end_sequence", which 0 fails as None does).
verify_chain_integrity(es, start_sequence, end_sequence) ==
  LET InRange(e) ==
        /\ e.sequence_number >= start_sequence
        /\ (end_sequence # 0 => e.sequence_number <= end_sequence)
      rows == OrderBySeq(es, {i \in 1..Len(es) : InRange(es[i])})
  IN  IF rows = <<>> THEN TRUE ELSE ChainLoop(rows, 1, None)

\* ProvenanceLedger.get_block: the id of the first row with the number, 0
\* for None.
get_block(bs, n) ==
  LET S == {i \in 1..Len(bs) : bs[i].block_number = n}
  IN  IF S = {} THEN 0 ELSE CHOOSE i \in S : \A j \in S : i <= j

\* ProvenanceLedger.get_block_entries
get_block_entries(es, bs, n) ==
  IF get_block(bs, n) = 0 THEN <<>> ELSE BlockEntries(es, get_block(bs, n))

\* LedgerBlock.verify_integrity
block_verify_integrity(b, es) ==
  /\ Len(es) = b.entry_count
  /\ get_root(MerkleTree(EntryHashes(es))) = b.merkle_root

\* ProvenanceLedger.verify_block_integrity
verify_block_integrity(es, bs, n) ==
  LET id == get_block(bs, n)
      in_block == get_block_entries(es, bs, n)
  IN  /\ id # 0
      /\ in_block # <<>>
      /\ \A k \in 1..Len(in_block) : entry_verify_integrity(in_block[k])
      /\ block_verify_integrity(bs[id], in_block)


\* ================================================================== actions

Events == {"e1", "e2"}
Writers == {1, 2}

Store(L) ==
  /\ entries' = L.entries
  /\ blocks' = L.blocks
  /\ _current_sequence' = L.seq
  /\ _current_block' = L.cur

\* A call's record: prev is the operation called before it.
Call(op, args, raised, val) ==
  [op |-> op, args |-> args, raised |-> raised, val |-> val, prev |-> ret.op]

\* ProvenanceLedger.__init__ on an empty store.
LedgerInit ==
  /\ entries = <<>>
  /\ blocks = <<>>
  /\ _current_sequence = _get_next_sequence_number(<<>>)
  /\ _current_block = None
  /\ _block_size \in 1..MaxBlockSize
  /\ now = 0
  /\ ret = [op |-> "__init__", args |-> <<>>, raised |-> FALSE,
            val |-> <<>>, prev |-> ""]

WritersIdle == writers = [w \in Writers |-> [pc |-> "idle"]]

MerkleIdle ==
  /\ m_pc = "idle"
  /\ m_leaves = <<>>
  /\ m_tree = None
  /\ m_leaf = None
  /\ m_proof = None
  /\ m_verified = None

\* ContractEngine.__init__ on an empty store; no sign_contract in flight.
ContractsIdle ==
  /\ contracts = <<>>
  /\ signing = [w \in Writers |-> [pc |-> "idle"]]

\* PolicyEngine.__init__ with a new PolicyRegistry.
PolicyIdle ==
  /\ _policies = <<>>
  /\ _evaluation_order = <<>>
  /\ evaluated = <<>>

\* The processing tasks a run can have alive at once.
Tasks == {"t1", "t2"}

\* ReflexiveEngine.__init__: no monitor, not running, an empty queue; no
\* task was created and no simulation is in progress.
ReflexIdle ==
  /\ monitors = <<>>
  /\ registered = <<>>
  /\ is_running = FALSE
  /\ event_queue = <<>>
  /\ tasks = [t \in Tasks |-> [pc |-> "none"]]
  /\ sim = [pc |-> "idle"]
  /\ submitted = <<>>
  /\ handled = <<>>

\* RBACPolicy.__init__ without a role_hierarchy: the default one.
DefaultHierarchy == [admin |-> {"user", "guest"}, user |-> {"guest"}]

\* PolicyMonitor.__init__: no violation recorded.
MonitorsIdle ==
  /\ violation_history = <<>>
  /\ unsimulated = [violation_history |-> <<>>, decision |-> None]

BuiltinsIdle == role_hierarchy = DefaultHierarchy /\ MonitorsIdle

EnginesIdle == ContractsIdle /\ PolicyIdle /\ ReflexIdle /\ BuiltinsIdle

Init == LedgerInit /\ WritersIdle /\ MerkleIdle /\ EnginesIdle

\* ProvenanceLedger.append_event, a call that returns its entry.
append_event(ev) ==
  /\ Len(entries) < MaxEntries
  /\ \E prev \in PreviousHashes(Ledger) :
       Store(AppendResult(Ledger, ev, prev, now))
  /\ ret' = Call("append_event", <<ev>>, FALSE, <<_current_sequence>>)
  /\ UNCHANGED <<_block_size, now, writers, merkleVars, engineVars>>

\* ProvenanceLedger.seal_current_block
seal_current_block ==
  /\ \/ /\ _current_block = None
        /\ UNCHANGED storeVars
        /\ ret' = Call("seal_current_block", <<>>, FALSE, <<FALSE>>)
     \/ /\ _current_block # None
        /\ Store(_seal_block(Ledger, now))
        /\ ret' = Call("seal_current_block", <<>>, FALSE, <<TRUE>>)
  /\ UNCHANGED <<_block_size, now, writers, merkleVars, engineVars>>

\* Time passes between calls.
Tick ==
  /\ now < MaxTime
  /\ now' = now + 1
  /\ UNCHANGED <<storeVars, _block_size, ret, writers, merkleVars, engineVars>>

Next ==
  \/ \E ev \in Events : append_event(ev)
  \/ seal_current_block
  \/ Tick

Spec == Init /\ [][Next]_vars


\* ------------------------------------------------- calls that raise

\* ProvenanceLedger.append_event, a call that raises ValueError because the
\* statement `at` raised: "begin" a statement before the first write (line
\* 233), "refresh" the session.refresh(entry) of line 245 with the block
\* object loaded by an earlier call, "seal" the select of _seal_block (line
\* 294) in the call that fills the block.  What was committed stays, what
\* follows the statement is skipped.
append_event_raises(ev, at) ==
  /\ Len(entries) < MaxEntries
  /\ \E prev \in PreviousHashes(Ledger) :
       LET L1 == EnsureBlock(Ledger)
           e  == SetBlock(L1, NewEntry(_current_sequence, ev, prev, now))
           L2 == AddEntry(L1, e)
           L3 == CountEntry(L2, e.sequence_number)
       IN  \/ /\ at = "begin"
              /\ UNCHANGED storeVars
           \/ /\ at = "refresh"
              /\ _current_block # None
              /\ ~_should_seal_block(_current_block)
              /\ Store(L2)
           \/ /\ at = "seal"
              /\ _should_seal_block(L3.cur)
              /\ Store(L3)
  /\ ret' = Call("append_event", <<ev>>, TRUE, <<>>)
  /\ UNCHANGED <<_block_size, now, writers, merkleVars, engineVars>>

NextFault ==
  \/ Next
  \/ \E ev \in Events, at \in {"begin", "refresh", "seal"} :
       append_event_raises(ev, at)

\* The ledger with database errors inside append_event.
SpecFault == Init /\ [][NextFault]_vars

\* ------------------------------------------------- concurrent writers

InFlight == Cardinality({w \in Writers : writers[w].pc # "idle"})

\* append_event by writer w, lines 216-226: the session opens and the
\* previous entry is selected.
WriterBegin(w, ev) ==
  /\ writers[w].pc = "idle"
  /\ Len(entries) + InFlight < MaxEntries
  /\ \E prev \in PreviousHashes(Ledger) :
       writers' = [writers EXCEPT
                     ![w] = [pc |-> "selected", ev |-> ev,
                             previous_hash |-> prev]]
  /\ UNCHANGED <<ledgerVars, merkleVars, engineVars>>

\* append_event by writer w, lines 229-240: the entry is built from
\* _current_sequence and the block is chosen or created.
WriterCreate(w) ==
  /\ writers[w].pc = "selected"
  /\ LET L1 == EnsureBlock(Ledger)
         e  == SetBlock(L1, NewEntry(_current_sequence, writers[w].ev,
                                     writers[w].previous_hash, now))
     IN  /\ Store(L1)
         /\ writers' = [writers EXCEPT
                          ![w] = [pc |-> "created", ev |-> writers[w].ev,
                                  entry |-> e]]
  /\ UNCHANGED <<_block_size, now, ret, merkleVars, engineVars>>

\* append_event by writer w, lines 243-245: the entry is committed.
WriterCommit(w) ==
  /\ writers[w].pc = "created"
  /\ Store(AddEntry(Ledger, writers[w].entry))
  /\ writers' = [writers EXCEPT ![w].pc = "committed"]
  /\ UNCHANGED <<_block_size, now, ret, merkleVars, engineVars>>

\* append_event by writer w, lines 248-259; with _current_block reset by
\* another writer's seal, line 248 raises AttributeError.
WriterFinish(w) ==
  /\ writers[w].pc = "committed"
  /\ IF _current_block = None
     THEN /\ UNCHANGED storeVars
          /\ ret' = Call("append_event", <<writers[w].ev>>, TRUE, <<>>)
     ELSE /\ Store(NextSequence(SealIfFull(
                 CountEntry(Ledger, writers[w].entry.sequence_number), now)))
          /\ ret' = Call("append_event", <<writers[w].ev>>, FALSE,
                         <<writers[w].entry.sequence_number>>)
  /\ writers' = [writers EXCEPT ![w] = [pc |-> "idle"]]
  /\ UNCHANGED <<_block_size, now, merkleVars, engineVars>>

NextConc ==
  \/ \E w \in Writers, ev \in Events : WriterBegin(w, ev)
  \/ \E w \in Writers : WriterCreate(w)
  \/ \E w \in Writers : WriterCommit(w)
  \/ \E w \in Writers : WriterFinish(w)

\* Two threads calling append_event on one ProvenanceLedger; a thread may
\* be preempted wherever it waits for the database.
SpecConc == Init /\ [][NextConc]_vars

\* ------------------------------------------- tampering and verification

Tampered == <<"tampered_hash">>

TamperedFields ==
  Cardinality({i \in 1..Len(entries) : entries[i].entry_hash = Tampered})
  + Cardinality({i \in 1..Len(entries) : entries[i].previous_hash = Tampered})

\* A stored entry's entry_hash is overwritten in the database.
tamper_entry_hash(i) ==
  /\ TamperedFields < MaxTamper
  /\ entries[i].entry_hash # Tampered
  /\ entries' = [entries EXCEPT ![i].entry_hash = Tampered]
  /\ ret' = Call("tamper", <<i>>, FALSE, <<>>)
  /\ UNCHANGED <<blocks, _current_sequence, _current_block, _block_size, now,
                 writers, merkleVars, engineVars>>

\* A stored entry's previous_hash is overwritten in the database.
tamper_previous_hash(i) ==
  /\ TamperedFields < MaxTamper
  /\ entries[i].previous_hash # Tampered
  /\ entries' = [entries EXCEPT ![i].previous_hash = Tampered]
  /\ ret' = Call("tamper", <<i>>, FALSE, <<>>)
  /\ UNCHANGED <<blocks, _current_sequence, _current_block, _block_size, now,
                 writers, merkleVars, engineVars>>

\* A call of verify_chain_integrity(start_sequence, end_sequence).
call_verify_chain_integrity(start_sequence, end_sequence) ==
  /\ ret' = Call("verify_chain_integrity", <<start_sequence, end_sequence>>,
                 FALSE,
                 <<verify_chain_integrity(entries, start_sequence,
                                          end_sequence)>>)
  /\ UNCHANGED <<storeVars, _block_size, now, writers, merkleVars, engineVars>>

\* A call of verify_block_integrity(block_number).
call_verify_block_integrity(n) ==
  /\ ret' = Call("verify_block_integrity", <<n>>, FALSE,
                 <<verify_block_integrity(entries, blocks, n)>>)
  /\ UNCHANGED <<storeVars, _block_size, now, writers, merkleVars, engineVars>>

NextTamper ==
  \/ \E ev \in Events : Len(entries) < MaxTamperEntries /\ append_event(ev)
  \/ seal_current_block
  \/ \E i \in 1..Len(entries) : tamper_entry_hash(i)
  \/ \E i \in 1..Len(entries) : tamper_previous_hash(i)
  \/ \E s \in 1..MaxTamperEntries, e \in 0..MaxTamperEntries :
       call_verify_chain_integrity(s, e)
  \/ \E n \in 1..MaxTamperEntries : call_verify_block_integrity(n)

\* The ledger with its store open to tampering, and the verifiers.
SpecTamper == Init /\ [][NextTamper]_vars

\* ------------------------------------------------------ a Merkle tree

LeafDigests == {<<"leaf", v>> : v \in 1..NumLeafVals}

MerkleNew ==
  /\ m_pc = "new"
  /\ m_leaves \in UNION {[1..n -> LeafDigests] : n \in 0..MaxLeaves}
  /\ m_tree = None
  /\ m_leaf = None
  /\ m_proof = None
  /\ m_verified = None

InitMerkle ==
  LedgerInit /\ _block_size = 1 /\ WritersIdle /\ MerkleNew /\ EnginesIdle

\* MerkleTree.__init__: an empty leaf list raises ValueError.
MerkleTreeInit ==
  /\ m_pc = "new"
  /\ IF m_leaves = <<>>
     THEN m_pc' = "raised" /\ m_tree' = None
     ELSE m_pc' = "built" /\ m_tree' = <<MerkleTree(m_leaves)>>
  /\ UNCHANGED <<ledgerVars, writers, engineVars, m_leaves, m_leaf, m_proof, m_verified>>

\* A call of MerkleTree.generate_proof(leaf_hash).
call_generate_proof(leaf_hash) ==
  /\ m_pc = "built"
  /\ m_leaf' = <<leaf_hash>>
  /\ m_proof' = generate_proof(m_tree[1], leaf_hash)
  /\ m_verified' = None
  /\ UNCHANGED <<ledgerVars, writers, engineVars, m_pc, m_leaves, m_tree>>

\* A call of MerkleProof.verify() on the proof returned.
call_verify ==
  /\ m_proof # None
  /\ m_verified = None
  /\ m_verified' = <<verify(m_proof[1])>>
  /\ UNCHANGED <<ledgerVars, writers, engineVars, m_pc, m_leaves, m_tree, m_leaf, m_proof>>

\* Every digest the tree holds: its leaves and the nodes of every level.
TreeNodes(tree) ==
  {tree.leaf_hashes[i] : i \in 1..Len(tree.leaf_hashes)}
    \cup UNION {{tree.tree_data[l][i] : i \in 1..Len(tree.tree_data[l])} :
                 l \in 1..Len(tree.tree_data)}
    \cup {tree.root_hash}

\* The paths a caller of MerkleProof(leaf_hash, path, root_hash) takes from
\* the tree's own proofs: the path of a leaf, or what is left of it after
\* dropping its first elements.
PathTails(tree) ==
  {<<>>} \cup
  UNION {LET path == generate_proof(tree, tree.leaf_hashes[i])[1].path
         IN  {SubSeq(path, k, Len(path)) : k \in 1..(Len(path) + 1)} :
         i \in 1..Len(tree.leaf_hashes)}

\* A call of MerkleTree.verify_proof(proof) on a MerkleProof the caller
\* constructed for the tree's root.
call_verify_proof(leaf_hash, path) ==
  /\ m_pc = "built"
  /\ LET proof == [leaf_hash |-> leaf_hash, path |-> path,
                   root_hash |-> get_root(m_tree[1])]
     IN  /\ m_proof' = <<proof>>
         /\ m_verified' = <<verify(proof)>>
  /\ m_leaf' = None
  /\ UNCHANGED <<ledgerVars, writers, engineVars, m_pc, m_leaves, m_tree>>

\* The digests and paths a caller has at hand: the leaf digests, and once
\* the tree is built, its nodes and the tails of its proofs' paths.
KnownDigests ==
  LeafDigests \cup (IF m_tree = None THEN {} ELSE TreeNodes(m_tree[1]))
KnownPaths == IF m_tree = None THEN {<<>>} ELSE PathTails(m_tree[1])

NextMerkle ==
  \/ MerkleTreeInit
  \/ \E leaf_hash \in KnownDigests : call_generate_proof(leaf_hash)
  \/ call_verify
  \/ \E leaf_hash \in KnownDigests : \E path \in KnownPaths :
       call_verify_proof(leaf_hash, path)

\* A Merkle tree built from any leaf list, proofs generated and verified.
SpecMerkle == InitMerkle /\ [][NextMerkle]_vars

\* ================================================================ contracts

\* ContractState
DRAFT == "draft"
PROPOSED == "proposed"
SIGNED == "signed"
REVOKED == "revoked"
EXPIRED == "expired"
ContractState == {DRAFT, PROPOSED, SIGNED, REVOKED, EXPIRED}

\* The ids of the parties contracts name and sign requests come from, and
\* the public key each of them presents.
PartyIds == {"p1", "p2"}
KeyOf == [p \in PartyIds |-> <<"key", p>>]
Keys == {KeyOf[p] : p \in PartyIds}
SignerType == "provider"

\* Contract.can_transition_to: the valid_transitions table.
valid_transitions ==
  [st \in ContractState |->
     CASE st = DRAFT    -> {PROPOSED, REVOKED}
       [] st = PROPOSED -> {SIGNED, REVOKED, DRAFT}
       [] st = SIGNED   -> {REVOKED}
       [] st = REVOKED  -> {}
       [] st = EXPIRED  -> {}]

can_transition_to(c, new_state) == new_state \in valid_transitions[c.state]

\* Contract.get_content_hash: SHA-256 over id, title, description, clauses,
\* parties and version; the title, description, clauses and version of the
\* contracts created here are the same.
get_content_hash(c) == <<"content", c.id, c.parties>>

\* The signer_ids of the signatures of a contract.
SignedPartyIds(c) == {c.signatures[i].signer_id : i \in 1..Len(c.signatures)}

\* Faulty variant: counts signatures instead of matching them to parties.
is_fully_signed_counts(c) == Len(c.signatures) >= Cardinality(c.parties)

\* Contract.is_fully_signed
is_fully_signed(c) == c.parties \subseteq SignedPartyIds(c)

\* f"{contract.id}:{contract.get_content_hash()}:{signer_id}:{signer_type}"
signing_message(c, signer_id, signer_type) ==
  <<c.id, get_content_hash(c), signer_id, signer_type>>

\* Ed25519Signer.sign with the private key whose public key is public_key.
Ed25519Sign(public_key, message) == <<"ed25519", public_key, message>>

\* crypto.verify_signature
verify_signature(public_key, message, signature) ==
  signature = Ed25519Sign(public_key, message)

\* Faulty variant: the message checked is that of any signer.
_verify_contract_signature_any_signer(c, request) ==
  \E sg \in PartyIds :
    verify_signature(request.public_key,
                     signing_message(c, sg, request.signer_type),
                     request.signature)

\* ContractEngine._verify_contract_signature and
\* ContractRegistry._verify_signature, which build the same message.
_verify_contract_signature(c, request) ==
  verify_signature(request.public_key,
                   signing_message(c, request.signer_id, request.signer_type),
                   request.signature)

\* ContractRegistry.create_contract: the row of a new contract.
NewContract(id, parties, expires_at, t) ==
  [id |-> id, parties |-> parties, state |-> DRAFT,
   created_at |-> t, proposed_at |-> None, signed_at |-> None,
   revoked_at |-> None, expires_at |-> expires_at,
   signatures |-> <<>>, last_modified |-> t]

\* Faulty variant: stamps nothing and skips the transition table.
update_contract_state_unchecked(c, new_state, t) ==
  [raised |-> FALSE, contract |-> [c EXCEPT !.state = new_state]]

\* ContractRegistry.update_contract_state on a contract that was found:
\* raises on a transition the table does not list, else sets the state,
\* last_modified and the state's timestamp where it is still None.
update_contract_state(c, new_state, t) ==
  IF ~can_transition_to(c, new_state)
  THEN [raised |-> TRUE, contract |-> c]
  ELSE [raised |-> FALSE,
        contract |->
          [c EXCEPT
             !.state = new_state,
             !.last_modified = t,
             !.proposed_at = IF new_state = PROPOSED /\ @ = None
                             THEN <<t>> ELSE @,
             !.signed_at = IF new_state = SIGNED /\ @ = None
                           THEN <<t>> ELSE @,
             !.revoked_at = IF new_state = REVOKED /\ @ = None
                            THEN <<t>> ELSE @]]

\* Signature(**signature_data), without the timestamp and metadata.
Signature(request) ==
  [signer_id |-> request.signer_id, signer_type |-> request.signer_type,
   signature |-> request.signature, public_key |-> request.public_key]

\* Faulty variant: moves to SIGNED on the first signature of a party.
add_signature_first_party(c, request, t) ==
  LET c1 == [c EXCEPT !.signatures = Append(@, Signature(request))]
  IN  IF c1.state = PROPOSED /\ request.signer_id \in c1.parties
      THEN [raised |-> FALSE,
            contract |-> [c1 EXCEPT !.state = SIGNED, !.signed_at = <<t>>,
                                    !.last_modified = t]]
      ELSE [raised |-> FALSE, contract |-> [c1 EXCEPT !.last_modified = t]]

\* ContractRegistry.add_signature on the contract object c of its session.
add_signature(c, request, t) ==
  IF c.state \notin {PROPOSED, SIGNED} THEN [raised |-> TRUE, contract |-> c]
  ELSE IF ~_verify_contract_signature(c, request)
  THEN [raised |-> TRUE, contract |-> c]
  ELSE LET c1 == [c EXCEPT !.signatures = Append(@, Signature(request))]
           c2 == IF is_fully_signed(c1) /\ c1.state = PROPOSED
                 THEN update_contract_state(c1, SIGNED, t)
                 ELSE [raised |-> FALSE, contract |-> c1]
       IN  IF c2.raised THEN [raised |-> TRUE, contract |-> c]
           ELSE [raised |-> FALSE,
                 contract |-> [c2.contract EXCEPT !.last_modified = t]]

\* Faulty variant: no check for a signature the signer already gave.
SignChecks_allow_repeat(c, request) ==
  /\ c.state \in {PROPOSED, SIGNED}
  /\ _verify_contract_signature(c, request)

\* The checks of ContractEngine.sign_contract before it adds the signature.
SignChecks(c, request) ==
  /\ c.state \in {PROPOSED, SIGNED}
  /\ request.signer_id \notin SignedPartyIds(c)
  /\ _verify_contract_signature(c, request)

\* ContractEngine.sign_contract on a contract that was found.
SignResult(c, request, t) ==
  IF ~SignChecks(c, request) THEN [raised |-> TRUE, contract |-> c]
  ELSE add_signature(c, request, t)

\* Faulty variant: no check for DRAFT, no transition table.
ProposeResult_any_state(c, t) ==
  update_contract_state_unchecked(c, PROPOSED, t)

\* ContractEngine.propose_contract on a contract that was found.
ProposeResult(c, t) ==
  IF c.state # DRAFT THEN [raised |-> TRUE, contract |-> c]
  ELSE update_contract_state(c, PROPOSED, t)

\* Faulty variant: no check for a terminal state.
RevokeResult_unchecked(c, t) ==
  update_contract_state_unchecked(c, REVOKED, t)

\* ContractEngine.revoke_contract and ContractRegistry.revoke_contract on a
\* contract that was found.
RevokeResult(c, t) ==
  IF c.state \in {REVOKED, EXPIRED} THEN [raised |-> TRUE, contract |-> c]
  ELSE update_contract_state(c, REVOKED, t)

\* Faulty variant: a contract expires at its expires_at, not after it.
get_expired_contracts_at(cs, t) ==
  {i \in 1..Len(cs) :
     /\ cs[i].expires_at # None
     /\ cs[i].expires_at[1] <= t
     /\ cs[i].state \notin {EXPIRED, REVOKED}}

\* ContractRegistry.get_expired_contracts: the ids selected.
get_expired_contracts(cs, t) ==
  {i \in 1..Len(cs) :
     /\ cs[i].expires_at # None
     /\ cs[i].expires_at[1] < t
     /\ cs[i].state \notin {EXPIRED, REVOKED}}

\* ContractRegistry.mark_contracts_expired: the table after it.
mark_contracts_expired(cs, t) ==
  [i \in 1..Len(cs) |->
     IF i \in get_expired_contracts(cs, t)
     THEN [cs[i] EXCEPT !.state = EXPIRED, !.last_modified = t]
     ELSE cs[i]]

\* ------------------------------------------------- the contract engine

\* The UUIDs uuid4() gives to the contracts a run creates, and one that no
\* contract ever gets.
OneContract == {"c1"}
TwoContracts == {"c1", "c2"}
UnknownId == "c0"

\* The times a contract is given as expires_at; None = no expiry.
ExpiryTimes == {None} \cup {<<t>> : t \in 0..MaxTime}

\* ContractRegistry.get_contract: the position of the row with the id, 0
\* where the source returns None.
get_contract(cs, id) ==
  IF \E i \in 1..Len(cs) : cs[i].id = id
  THEN CHOOSE i \in 1..Len(cs) : cs[i].id = id
  ELSE 0

\* The signatures in circulation: made with any key over the signing
\* message of any stored contract and any signer.
Signatures ==
  {Ed25519Sign(k, signing_message(contracts[i], sg, SignerType)) :
     k \in Keys, i \in 1..Len(contracts), sg \in PartyIds}
  \cup {Ed25519Sign(KeyOf[sg], <<UnknownId, None, sg, SignerType>>) :
          sg \in PartyIds}

\* What a caller hands to sign_contract: a signer with its public key and
\* one of the signatures in circulation.
SignRequests ==
  {[signer_id |-> sg, signer_type |-> SignerType, public_key |-> KeyOf[sg],
    signature |-> sig] : sg \in PartyIds, sig \in Signatures}

\* A contract call's record.
ContractRet(op, args, raised, val) ==
  [op |-> op, args |-> args, raised |-> raised, val |-> val, prev |-> ""]

\* ContractEngine.create_contract; id is the UUID the new row gets.
create_contract(id, parties, expires_at) ==
  /\ get_contract(contracts, id) = 0
  /\ contracts' = Append(contracts, NewContract(id, parties, expires_at, now))
  /\ ret' = ContractRet("create_contract", <<parties, expires_at>>, FALSE, <<id>>)
  /\ UNCHANGED <<storeVars, _block_size, now, writers, merkleVars, builtinVars, signing,
                 policyVars, reflexVars>>

\* The end of a lifecycle call on the row at position i: the result is
\* committed, or the call raises and the session is rolled back.
ContractCommit(op, args, i, result) ==
  /\ ret' = ContractRet(op, args, result.raised,
                        IF result.raised THEN <<>> ELSE <<contracts[i].id>>)
  /\ contracts' = [contracts EXCEPT ![i] = result.contract]

\* "Contract not found"
ContractNotFound(op, args) ==
  /\ ret' = ContractRet(op, args, TRUE, <<>>)
  /\ UNCHANGED contracts

\* ContractEngine.propose_contract
propose_contract(id) ==
  /\ LET i == get_contract(contracts, id)
     IN  IF i = 0 THEN ContractNotFound("propose_contract", <<id>>)
         ELSE ContractCommit("propose_contract", <<id>>, i,
                             ProposeResult(contracts[i], now))
  /\ UNCHANGED <<storeVars, _block_size, now, writers, merkleVars, builtinVars, signing,
                 policyVars, reflexVars>>

\* ContractEngine.sign_contract
sign_contract(id, request) ==
  /\ LET i == get_contract(contracts, id)
     IN  IF i = 0 THEN ContractNotFound("sign_contract", <<id, request>>)
         ELSE ContractCommit("sign_contract", <<id, request>>, i,
                             SignResult(contracts[i], request, now))
  /\ UNCHANGED <<storeVars, _block_size, now, writers, merkleVars, builtinVars, signing,
                 policyVars, reflexVars>>

\* ContractEngine.revoke_contract
revoke_contract(id) ==
  /\ LET i == get_contract(contracts, id)
     IN  IF i = 0 THEN ContractNotFound("revoke_contract", <<id>>)
         ELSE ContractCommit("revoke_contract", <<id>>, i,
                             RevokeResult(contracts[i], now))
  /\ UNCHANGED <<storeVars, _block_size, now, writers, merkleVars, builtinVars, signing,
                 policyVars, reflexVars>>

\* ContractEngine.cleanup_expired_contracts
cleanup_expired_contracts ==
  /\ contracts' = mark_contracts_expired(contracts, now)
  /\ ret' = ContractRet("cleanup_expired_contracts", <<>>, FALSE,
                        <<Cardinality(get_expired_contracts(contracts, now))>>)
  /\ UNCHANGED <<storeVars, _block_size, now, writers, merkleVars, builtinVars, signing,
                 policyVars, reflexVars>>

InitContract ==
  LedgerInit /\ _block_size = 1 /\ WritersIdle /\ MerkleIdle /\ EnginesIdle

NextContract ==
  \/ \E id \in OneContract : \E parties \in SUBSET PartyIds :
       \E expires_at \in ExpiryTimes : create_contract(id, parties, expires_at)
  \/ \E id \in OneContract \cup {UnknownId} : propose_contract(id)
  \/ \E id \in OneContract \cup {UnknownId} : \E request \in SignRequests :
       sign_contract(id, request)
  \/ \E id \in OneContract \cup {UnknownId} : revoke_contract(id)
  \/ cleanup_expired_contracts
  \/ Tick

\* The contract engine, one call at a time.
SpecContract == InitContract /\ [][NextContract]_vars

NextExpiry ==
  \/ \E id \in TwoContracts : \E expires_at \in ExpiryTimes :
       create_contract(id, PartyIds, expires_at)
  \/ \E id \in TwoContracts : propose_contract(id)
  \/ \E id \in TwoContracts : revoke_contract(id)
  \/ cleanup_expired_contracts
  \/ Tick

\* Two contracts that are created, proposed, revoked and cleaned up.
SpecExpiry == InitContract /\ [][NextExpiry]_vars

\* ------------------------------------------- concurrent sign requests

\* The UPDATE a session flushes for its contract object: the columns whose
\* value the session changed since it loaded the object, over the row as
\* it is stored now.
WriteBack(row, loaded, changed) ==
  [row EXCEPT
     !.signatures = IF changed.signatures # loaded.signatures
                    THEN changed.signatures ELSE @,
     !.state = IF changed.state # loaded.state THEN changed.state ELSE @,
     !.signed_at = IF changed.signed_at # loaded.signed_at
                   THEN changed.signed_at ELSE @,
     !.last_modified = IF changed.last_modified # loaded.last_modified
                       THEN changed.last_modified ELSE @]

\* sign_contract up to its checks: the handler's session loads the
\* contract; a request that fails a check raises at once.
SignBegin(w, id, request) ==
  /\ signing[w].pc = "idle"
  /\ LET i == get_contract(contracts, id)
     IN  IF i = 0 \/ ~SignChecks(contracts[i], request)
         THEN /\ ret' = ContractRet("sign_contract", <<id, request>>, TRUE, <<>>)
              /\ UNCHANGED signing
         ELSE /\ signing' = [signing EXCEPT
                               ![w] = [pc |-> "checked", id |-> id,
                                       request |-> request,
                                       contract |-> contracts[i]]]
              /\ UNCHANGED ret
  /\ UNCHANGED <<storeVars, _block_size, now, writers, merkleVars, builtinVars, contracts,
                 policyVars, reflexVars>>

\* sign_contract from registry.add_signature on: the signature is added
\* to the session's object and the session commits.
SignCommit(w) ==
  /\ signing[w].pc = "checked"
  /\ LET loaded == signing[w].contract
         result == add_signature(loaded, signing[w].request, now)
         i      == get_contract(contracts, signing[w].id)
     IN  /\ contracts' =
              IF result.raised THEN contracts
              ELSE [contracts EXCEPT
                      ![i] = WriteBack(@, loaded, result.contract)]
         /\ ret' = ContractRet("sign_contract",
                               <<signing[w].id, signing[w].request>>,
                               result.raised,
                               IF result.raised THEN <<>> ELSE <<signing[w].id>>)
         /\ signing' = [signing EXCEPT
                          ![w] = [pc |-> IF result.raised THEN "raised" ELSE "done",
                                  id |-> signing[w].id,
                                  request |-> signing[w].request]]
  /\ UNCHANGED <<storeVars, _block_size, now, writers, merkleVars, builtinVars, policyVars,
                 reflexVars>>

NextSign ==
  \/ \E id \in OneContract : \E parties \in SUBSET PartyIds :
       \E expires_at \in ExpiryTimes : create_contract(id, parties, expires_at)
  \/ \E id \in OneContract : propose_contract(id)
  \/ \E w \in Writers : \E id \in OneContract \cup {UnknownId} :
       \E request \in SignRequests : SignBegin(w, id, request)
  \/ \E w \in Writers : SignCommit(w)

\* Request handlers that sign run in parallel, each with its own session.
SpecSign == InitContract /\ [][NextSign]_vars

\* ============================================================ policy engine

\* Longest list of policy names given to set_evaluation_order or evaluate.
MaxChain == 3

\* The names policies are registered under and named by.
PolicyNames == {"policy1", "policy2"}

\* What a policy's evaluate(context) does for the context of the run: it
\* returns an allow decision, returns a deny decision, or raises.
Behaviours == {"allow", "deny", "raise"}

\* The lists of policy names a caller gives.
Chains == UNION {[1..n -> PolicyNames] : n \in 0..MaxChain}

\* PolicyRegistry.get_policy: the position of the policy in _policies, 0
\* where the source returns None.
get_policy(reg, name) ==
  IF \E i \in 1..Len(reg) : reg[i].name = name
  THEN CHOOSE i \in 1..Len(reg) : reg[i].name = name
  ELSE 0

\* The Decision a policy of the given behaviour returns.
PolicyDecision(policy) ==
  [allow |-> policy.behaviour = "allow",
   reason |-> <<policy.behaviour, policy.name>>,
   proof |-> None]

\* str(e) of the exception a raising policy raises; the message is the
\* policy's own and does not have to hold its name.
PolicyError == "Policy error"

\* Decision.deny_decision(reason=f"Policy evaluation error: {e}",
\*                        proof={"policy": policy_name, "error": str(e)})
\* A formatted string is the sequence of its parts.
ErrorDecision(policy_name) ==
  [allow |-> FALSE,
   reason |-> <<"Policy evaluation error: ", PolicyError>>,
   proof |-> <<[policy |-> policy_name, error |-> PolicyError]>>]

\* Decision.allow_decision(reason="All policies evaluated successfully",
\*                         proof={"evaluated_policies": policy_names})
AllowDecision(policy_names) ==
  [allow |-> TRUE,
   reason |-> "All policies evaluated successfully",
   proof |-> <<[evaluated_policies |-> policy_names]>>]

\* Faulty variant: a deny does not end the loop.
Returns_never(decision) == FALSE

\* "if not decision.allow: return decision"
Returns(decision) == ~decision.allow

RECURSIVE EvaluateFrom(_, _, _, _)
\* The for loop of PolicyEngine.evaluate from policy_names[k] on; awaited
\* lists the policies whose evaluate() was awaited so far.
EvaluateFrom(reg, policy_names, k, awaited) ==
  IF k > Len(policy_names)
  THEN [decision |-> AllowDecision(policy_names), evaluated |-> awaited]
  ELSE LET i == get_policy(reg, policy_names[k])
       IN  IF i = 0 THEN EvaluateFrom(reg, policy_names, k + 1, awaited)
           ELSE IF reg[i].behaviour = "raise"
           THEN [decision |-> ErrorDecision(policy_names[k]),
                 evaluated |-> Append(awaited, policy_names[k])]
           ELSE IF Returns(PolicyDecision(reg[i]))
           THEN [decision |-> PolicyDecision(reg[i]),
                 evaluated |-> Append(awaited, policy_names[k])]
           ELSE EvaluateFrom(reg, policy_names, k + 1,
                             Append(awaited, policy_names[k]))

\* The chain PolicyEngine.evaluate goes through: the names given, else the
\* evaluation order when one is set, else the registry's keys.
ChainOf(reg, order, given) ==
  IF given # None THEN given[1]
  ELSE IF order # <<>> THEN order
  ELSE [i \in 1..Len(reg) |-> reg[i].name]

\* A policy call's record.
PolicyRet(op, args, val) ==
  [op |-> op, args |-> args, raised |-> FALSE, val |-> val, prev |-> ""]

\* PolicyEngine.register_policy: self._policies[policy.name] = policy
register_policy(name, behaviour) ==
  /\ LET i == get_policy(_policies, name)
         policy == [name |-> name, behaviour |-> behaviour]
     IN  _policies' = IF i = 0 THEN Append(_policies, policy)
                      ELSE [_policies EXCEPT ![i] = policy]
  /\ ret' = PolicyRet("register_policy", <<name, behaviour>>, <<>>)
  /\ UNCHANGED <<storeVars, _block_size, now, writers, merkleVars, builtinVars,
                 contractVars, reflexVars, _evaluation_order, evaluated>>

\* PolicyEngine.unregister_policy: self._policies.pop(name, None)
unregister_policy(name) ==
  /\ _policies' = SelectSeq(_policies, LAMBDA policy : policy.name # name)
  /\ ret' = PolicyRet("unregister_policy", <<name>>,
                      <<get_policy(_policies, name) # 0>>)
  /\ UNCHANGED <<storeVars, _block_size, now, writers, merkleVars, builtinVars,
                 contractVars, reflexVars, _evaluation_order, evaluated>>

\* PolicyEngine.set_evaluation_order
set_evaluation_order(policy_names) ==
  /\ _evaluation_order' = policy_names
  /\ ret' = PolicyRet("set_evaluation_order", <<policy_names>>, <<>>)
  /\ UNCHANGED <<storeVars, _block_size, now, writers, merkleVars, builtinVars,
                 contractVars, reflexVars, _policies, evaluated>>

\* PolicyEngine.evaluate(context, policy_names); given is None or
\* <<policy_names>>.
evaluate(given) ==
  /\ LET result == EvaluateFrom(_policies,
                                ChainOf(_policies, _evaluation_order, given),
                                1, <<>>)
     IN  /\ ret' = PolicyRet("evaluate", <<given>>, <<result.decision>>)
         /\ evaluated' = result.evaluated
  /\ UNCHANGED <<storeVars, _block_size, now, writers, merkleVars, builtinVars,
                 contractVars, reflexVars, _policies, _evaluation_order>>

InitPolicy ==
  LedgerInit /\ _block_size = 1 /\ WritersIdle /\ MerkleIdle /\ EnginesIdle

NextPolicy ==
  \/ \E name \in PolicyNames : \E behaviour \in Behaviours :
       register_policy(name, behaviour)
  \/ \E name \in PolicyNames : unregister_policy(name)
  \/ \E policy_names \in Chains : set_evaluation_order(policy_names)
  \/ \E given \in {None} \cup {<<policy_names>> : policy_names \in Chains} :
       evaluate(given)

\* The policy engine, one call at a time.
SpecPolicy == InitPolicy /\ [][NextPolicy]_vars

\* ============================================================ RBAC policy

\* The roles an RBACPolicy is built with: role -> permissions.
roles ==
  [a |-> {"read"}, b |-> {}, c |-> {"delete"}, admin |-> {"*"}]

\* RBACPolicy.permissions, the default mapping: permission -> the actions
\* it stands for.
permissions ==
  [read |-> {"get", "list", "view", "read"},
   write |-> {"create", "update", "modify", "write"},
   delete |-> {"remove", "delete", "destroy"},
   admin |-> {"admin", "manage", "configure", "privileged"}]

\* The role hierarchies an RBACPolicy is built with: role -> the roles it
\* inherits from.
Hierarchies == [{"a", "b"} -> SUBSET {"b", "c", "admin"}]

\* self.role_hierarchy = role_hierarchy or {...}
RBACPolicy(hierarchy) ==
  IF \A role \in DOMAIN hierarchy : FALSE THEN DefaultHierarchy ELSE hierarchy

\* RBACPolicy._get_user_permissions: the permissions of the user's roles
\* and of the roles role_hierarchy lists for each of them; a role of the
\* user that holds "*" ends the loop with {"*"}. The order of user_roles
\* changes nothing: the loop reaches every role unless it returns {"*"}.
_get_user_permissions(user_roles) ==
  LET known == user_roles \cap DOMAIN roles
      inherited_roles(role) ==
        IF role \in DOMAIN role_hierarchy
        THEN role_hierarchy[role] \cap DOMAIN roles
        ELSE {}
  IN  IF \E role \in known : "*" \in roles[role] THEN {"*"}
      ELSE UNION {roles[role]
                    \cup UNION {roles[inherited_role] :
                                  inherited_role \in inherited_roles(role)} :
                  role \in known}

\* RBACPolicy._check_permission
_check_permission(user_permissions, required_action) ==
  \/ "*" \in user_permissions
  \/ required_action \in user_permissions
  \/ \E permission \in DOMAIN permissions :
       /\ permission \in user_permissions
       /\ required_action \in permissions[permission]

\* RBACPolicy.evaluate: the decision for a context.
RBACDecision(context) ==
  LET user_roles == context.user.roles
      user_permissions == _get_user_permissions(user_roles)
      has_permission == _check_permission(user_permissions, context.action)
      resource == context.resource
      proof == [user_permissions |-> user_permissions,
                permission_check |-> has_permission]
  IN  IF user_roles = {}
      THEN [allow |-> FALSE, reason |-> "User has no assigned roles",
            proof |-> [user_permissions |-> {}, permission_check |-> FALSE]]
      ELSE IF ~has_permission
      THEN [allow |-> FALSE, reason |-> "User lacks permission for this action",
            proof |-> proof]
      ELSE IF \/ resource.owner = context.user.id
              \/ "admin" \in user_roles
              \/ "*" \in user_permissions
      THEN [allow |-> TRUE,
            reason |-> "User has permission and owns resource or is admin",
            proof |-> proof]
      ELSE IF resource.visibility \in {"public", "shared"}
      THEN [allow |-> TRUE,
            reason |-> "User has permission and resource is public/shared",
            proof |-> proof]
      ELSE IF /\ context.user.id \in DOMAIN resource.permissions
              /\ \/ context.action \in resource.permissions[context.user.id]
                 \/ "*" \in resource.permissions[context.user.id]
      THEN [allow |-> TRUE, reason |-> "User has explicit resource permission",
            proof |-> proof]
      ELSE [allow |-> FALSE,
            reason |-> "User lacks permission for this private resource",
            proof |-> proof]

\* The contexts given to RBACPolicy.evaluate.
RBACContexts ==
  {[user |-> [id |-> "u1", roles |-> user_roles],
    action |-> action,
    resource |-> resource] :
     user_roles \in SUBSET {"a", "b", "c", "admin", "ghost"},
     action \in {"get", "read", "delete", "remove", "x"},
     resource \in {[owner |-> "u1", visibility |-> "private", permissions |-> <<>>],
                   [owner |-> "u2", visibility |-> "private", permissions |-> <<>>],
                   [owner |-> "u2", visibility |-> "public", permissions |-> <<>>],
                   [owner |-> "u2", visibility |-> "private",
                    permissions |-> [u1 |-> {"*"}]]}}

\* RBACPolicy.evaluate. No call changes the policy: a run makes one call.
rbac_evaluate(context) ==
  /\ ret' = PolicyRet("rbac_evaluate", <<context>>, <<RBACDecision(context)>>)
  /\ UNCHANGED <<storeVars, _block_size, now, writers, merkleVars,
                 contractVars, policyVars, reflexVars, builtinVars>>

InitRBAC ==
  /\ LedgerInit /\ _block_size = 1 /\ WritersIdle /\ MerkleIdle
  /\ ContractsIdle /\ PolicyIdle /\ ReflexIdle
  /\ role_hierarchy \in {RBACPolicy(hierarchy) : hierarchy \in Hierarchies}
  /\ MonitorsIdle

NextRBAC ==
  \E context \in IF ret.op # "rbac_evaluate" THEN RBACContexts ELSE {} :
    rbac_evaluate(context)

\* An RBACPolicy built with a role hierarchy evaluates contexts.
SpecRBAC == InitRBAC /\ [][NextRBAC]_vars

\* =========================================================== HIPAA policy

\* Decision.allow_decision and Decision.deny_decision; obligations holds
\* the types of the obligations, in order. A call that raises gives Raised.
allow_decision(reason, obligations) ==
  [raised |-> None, allow |-> TRUE, obligations |-> obligations,
   reason |-> reason]

deny_decision(reason) ==
  [raised |-> None, allow |-> FALSE, obligations |-> <<>>, reason |-> reason]

Raised(error) == [raised |-> <<error>>]

\* str.lower on the purposes given.
Lower(purpose) == IF purpose = "Payment" THEN "payment" ELSE purpose

\* context.get("purpose", "").lower()
PurposeOf(context) ==
  IF context.purpose = None THEN "" ELSE Lower(context.purpose[1])

\* The f-strings of the audit_log obligations read context['user']['id']
\* and, where with_purpose, context['purpose']: a missing key raises
\* KeyError before the decision is built.
Described(context, with_purpose, decision) ==
  IF context.user.id = None \/ (with_purpose /\ context.purpose = None)
  THEN Raised("KeyError")
  ELSE decision

\* HIPAAAccessPolicy._evaluate_emergency_access
_evaluate_emergency_access(context) ==
  Described(context, FALSE,
            allow_decision("Access permitted under emergency provisions.",
                           <<"audit_log", "follow_up">>))

\* HIPAAAccessPolicy._evaluate_patient_rights: None, a decision, or the
\* ValueError of strptime on a date_of_death that is not %Y-%m-%d.
\* date_of_death is None or <<d>> with d "over 50 years ago", "under 50
\* years ago" or "malformed".
_evaluate_patient_rights(context) ==
  LET patient == context.patient
  IN  IF /\ patient.has_restriction
         /\ patient.restriction_details.action = context.action
         /\ patient.restriction_details.recipient = context.recipient.id
      THEN <<deny_decision("Disclosure is blocked by a patient-requested restriction.")>>
      ELSE IF patient.is_deceased /\ patient.date_of_death # None
      THEN IF patient.date_of_death[1] = "malformed"
           THEN <<Raised("ValueError")>>
           ELSE IF patient.date_of_death[1] = "over 50 years ago"
           THEN <<allow_decision("Patient deceased for over 50 years; information is not considered PHI.", <<>>)>>
           ELSE None
      ELSE None

\* HIPAAAccessPolicy._evaluate_authorizations: None or a decision.
_evaluate_authorizations(context) ==
  LET purpose == PurposeOf(context)
  IN  IF /\ context.resource.type = "psychotherapy_notes"
         /\ purpose # "treatment"
         /\ ~context.request.authorization_present
      THEN <<deny_decision("Disclosure of psychotherapy notes requires specific patient authorization.")>>
      ELSE IF /\ purpose \in {"marketing", "sale_of_phi"}
              /\ ~context.request.authorization_present
      THEN <<deny_decision("Purpose requires patient authorization.")>>
      ELSE None

\* role_permissions of _check_minimum_necessary
role_permissions ==
  [provider |-> {"full_record"},
   payee |-> {"demographics", "billing_codes", "dates_of_service",
              "insurance_info"},
   admin |-> {"full_record"}]

\* HIPAAAccessPolicy._check_minimum_necessary
_check_minimum_necessary(context) ==
  LET known == context.user.roles \cap DOMAIN role_permissions
      permitted_elements == UNION {role_permissions[role] : role \in known}
  IN  IF PurposeOf(context) = "treatment"
      THEN allow_decision("Minimum Necessary does not apply to disclosures for treatment.", <<>>)
      ELSE IF "full_record" \in permitted_elements
      THEN allow_decision("User role permits access to the full record.", <<>>)
      ELSE IF ~(context.resource.data_elements \subseteq permitted_elements)
      THEN deny_decision("Request exceeds the minimum necessary information for the user's role.")
      ELSE allow_decision("Minimum Necessary check passed.", <<>>)

\* HIPAAAccessPolicy._evaluate_provider_access
_evaluate_provider_access(context) ==
  IF ~_check_minimum_necessary(context).allow
  THEN _check_minimum_necessary(context)
  ELSE Described(context, TRUE,
         allow_decision("Provider access permitted for a valid purpose.",
                        IF context.action = "disclose"
                        THEN <<"audit_log", "transmission_security">>
                        ELSE <<"audit_log">>))

\* HIPAAAccessPolicy._evaluate_payee_access
_evaluate_payee_access(context) ==
  IF context.resource.is_clinical /\ context.action \in {"write", "delete"}
  THEN deny_decision("Payee role is prohibited from modifying clinical PHI to ensure data integrity.")
  ELSE IF ~_check_minimum_necessary(context).allow
  THEN _check_minimum_necessary(context)
  ELSE Described(context, TRUE,
         allow_decision("Payee access to non-clinical data permitted.",
                        IF context.action = "export"
                        THEN <<"audit_log", "encryption">>
                        ELSE <<"audit_log">>))

\* HIPAAAccessPolicy._evaluate_patient_self_access: user.get("id") is
\* compared with patient.get("id").
_evaluate_patient_self_access(context) ==
  IF context.user.id # <<context.patient.id>>
  THEN deny_decision("Patient role can only access their own records.")
  ELSE allow_decision("Patient has a right of access to their own PHI; minimum necessary does not apply.",
                      IF context.action = "export"
                      THEN <<"audit_log", "encryption">>
                      ELSE <<"audit_log">>)

\* HIPAAAccessPolicy._evaluate_actor_specific_rules
_evaluate_actor_specific_rules(context) ==
  IF "provider" \in context.user.roles THEN _evaluate_provider_access(context)
  ELSE IF "payee" \in context.user.roles THEN _evaluate_payee_access(context)
  ELSE IF "patient" \in context.user.roles
  THEN _evaluate_patient_self_access(context)
  ELSE deny_decision("User does not have a recognized HIPAA actor role (provider, payee, patient).")

\* HIPAAAccessPolicy.evaluate: the decision, or the exception raised.
HIPAADecision(context) ==
  IF ~context.resource.is_phi
  THEN allow_decision("Policy does not apply to non-PHI resources.", <<>>)
  ELSE IF context.is_emergency_access
  THEN _evaluate_emergency_access(context)
  ELSE IF _evaluate_patient_rights(context) # None
  THEN _evaluate_patient_rights(context)[1]
  ELSE IF _evaluate_authorizations(context) # None
  THEN _evaluate_authorizations(context)[1]
  ELSE _evaluate_actor_specific_rules(context)

\* The patients of the contexts given: without restriction, with a
\* restriction on writing to recipient r1, and deceased.
Patients ==
  {[id |-> "p1", has_restriction |-> has_restriction,
    restriction_details |-> [action |-> "write", recipient |-> "r1"],
    is_deceased |-> FALSE, date_of_death |-> None] :
     has_restriction \in BOOLEAN}
  \cup {[id |-> "p1", has_restriction |-> FALSE,
         restriction_details |-> [action |-> "write", recipient |-> "r1"],
         is_deceased |-> TRUE, date_of_death |-> <<d>>] :
          d \in {"over 50 years ago", "under 50 years ago", "malformed"}}

\* The contexts given to HIPAAAccessPolicy.evaluate about the patients
\* given; user.id and purpose can be missing.
HIPAAContexts(patients) ==
  {[resource |-> [is_phi |-> is_phi, is_clinical |-> is_clinical,
                  type |-> type, data_elements |-> data_elements],
    is_emergency_access |-> is_emergency_access,
    patient |-> patient,
    action |-> action,
    recipient |-> [id |-> "r1"],
    purpose |-> purpose,
    request |-> [authorization_present |-> authorization_present],
    user |-> [id |-> id, roles |-> user_roles]] :
     is_phi \in BOOLEAN, is_clinical \in BOOLEAN,
     type \in {"psychotherapy_notes", "lab_result"},
     data_elements \in {{"billing_codes"}, {"diagnosis_code"}},
     is_emergency_access \in BOOLEAN,
     patient \in patients,
     action \in {"read", "write", "delete", "export", "disclose"},
     purpose \in {None, <<"treatment">>, <<"Payment">>, <<"marketing">>},
     authorization_present \in BOOLEAN,
     id \in {None, <<"p1">>, <<"u1">>},
     user_roles \in {{}, {"provider"}, {"payee"}, {"patient"},
                     {"provider", "payee"}, {"payee", "patient"}}}

\* HIPAAAccessPolicy.evaluate. The policy keeps nothing between calls: a
\* run makes one call.
hipaa_evaluate(context) ==
  /\ LET result == HIPAADecision(context)
     IN  ret' = [op |-> "hipaa_evaluate", args |-> <<context>>,
                 raised |-> result.raised # None,
                 val |-> IF result.raised # None THEN <<>> ELSE <<result>>,
                 prev |-> ""]
  /\ UNCHANGED <<storeVars, _block_size, now, writers, merkleVars,
                 contractVars, policyVars, reflexVars, builtinVars>>

NextHIPAA ==
  \E context \in IF ret.op # "hipaa_evaluate" THEN HIPAAContexts(Patients)
                    ELSE {} :
    hipaa_evaluate(context)

\* A HIPAAAccessPolicy evaluates contexts.
SpecHIPAA == InitPolicy /\ [][NextHIPAA]_vars

\* ========================================================= reflexive engine

\* Longest list of monitors whose outputs are assessed.
MaxMonitors == 5

\* The violations a PolicyMonitor records in a run.
MaxViolations == 4

\* class DecisionType
DecisionType ==
  [HALT |-> "halt", ESCALATE |-> "escalate", MONITOR |-> "monitor",
   ALLOW |-> "allow"]

\* class RiskLevel
RiskLevel ==
  [LOW |-> "low", MEDIUM |-> "medium", HIGH |-> "high",
   CRITICAL |-> "critical"]

\* The thresholds of _assess_risk_level.
HighIssues == 5
MediumIssues == 2

\* What a monitor does when called with the action context: type "none"
\* is a falsy result, "raise" an exception, any other type a dict with
\* that "type" and the "severity".
Result(type, severity) == [type |-> type, severity |-> severity]

\* A monitor: a callable, known by its __name__ and by what it returns for
\* the context of the run.
Monitor(name, result) == [name |-> name, result |-> result]

\* The results of the monitors called so far that _evaluate_action put in
\* the list of the given type (lines 181-185): a falsy result, a result of
\* another type and a monitor that raised add nothing.
\* Faulty variant: the exception of a monitor ends the loop, and only the
\* monitors called before it are collected.
Collected_until_raise(called, type) ==
  LET raising == {i \in 1..Len(called) : called[i].result.type = "raise"}
      before == IF raising = {} THEN called
                ELSE SubSeq(called, 1,
                            (CHOOSE i \in raising : \A j \in raising : i <= j) - 1)
      kept == SelectSeq(before, LAMBDA monitor : monitor.result.type = type)
  IN  [i \in 1..Len(kept) |-> kept[i].result]

Collected(called, type) ==
  LET kept == SelectSeq(called, LAMBDA monitor : monitor.result.type = type)
  IN  [i \in 1..Len(kept) |-> kept[i].result]

\* Whether a list of findings has one of the severity.
HasSeverity(findings, severity) ==
  \E i \in 1..Len(findings) : findings[i].severity = severity

\* Faulty variant: the thresholds are compared with >.
_assess_risk_level_above(violations, anomalies) ==
  LET total_issues == Len(violations) + Len(anomalies)
  IN  IF HasSeverity(violations, "critical") \/ HasSeverity(anomalies, "critical")
      THEN RiskLevel.CRITICAL
      ELSE IF \/ HasSeverity(violations, "high")
              \/ HasSeverity(anomalies, "high")
              \/ total_issues > HighIssues
      THEN RiskLevel.HIGH
      ELSE IF \/ HasSeverity(violations, "medium")
              \/ HasSeverity(anomalies, "medium")
              \/ total_issues > MediumIssues
      THEN RiskLevel.MEDIUM
      ELSE RiskLevel.LOW

\* Faulty variant: the thresholds are compared with =.
_assess_risk_level_exactly(violations, anomalies) ==
  LET total_issues == Len(violations) + Len(anomalies)
  IN  IF HasSeverity(violations, "critical") \/ HasSeverity(anomalies, "critical")
      THEN RiskLevel.CRITICAL
      ELSE IF \/ HasSeverity(violations, "high")
              \/ HasSeverity(anomalies, "high")
              \/ total_issues = HighIssues
      THEN RiskLevel.HIGH
      ELSE IF \/ HasSeverity(violations, "medium")
              \/ HasSeverity(anomalies, "medium")
              \/ total_issues = MediumIssues
      THEN RiskLevel.MEDIUM
      ELSE RiskLevel.LOW

\* ReflexiveEngine._assess_risk_level
_assess_risk_level(violations, anomalies) ==
  LET total_issues == Len(violations) + Len(anomalies)
  IN  IF HasSeverity(violations, "critical") \/ HasSeverity(anomalies, "critical")
      THEN RiskLevel.CRITICAL
      ELSE IF \/ HasSeverity(violations, "high")
              \/ HasSeverity(anomalies, "high")
              \/ total_issues >= HighIssues
      THEN RiskLevel.HIGH
      ELSE IF \/ HasSeverity(violations, "medium")
              \/ HasSeverity(anomalies, "medium")
              \/ total_issues >= MediumIssues
      THEN RiskLevel.MEDIUM
      ELSE RiskLevel.LOW

\* ReflexiveDecision.get_decision_hash: SHA-256 over the decision's fields,
\* escalated_to among them (the reason is fixed by the risk level and the
\* evidence).
get_decision_hash(decision) ==
  <<"sha256", decision.decision_type, decision.risk_level,
    decision.action_context, decision.evidence, decision.escalated_to>>

\* _evaluate_action, lines 189-227: the decision made from the monitors
\* called, with its proof_hash set.
ReflexiveDecision(action_context, called) ==
  LET violations == Collected(called, "violation")
      anomalies == Collected(called, "anomaly")
      risk_level == IF violations # <<>> \/ anomalies # <<>>
                    THEN _assess_risk_level(violations, anomalies)
                    ELSE RiskLevel.LOW
      decision ==
        [decision_type |->
           IF violations = <<>> /\ anomalies = <<>> THEN DecisionType.ALLOW
           ELSE IF risk_level \in {RiskLevel.CRITICAL, RiskLevel.HIGH}
           THEN DecisionType.HALT
           ELSE IF risk_level = RiskLevel.MEDIUM THEN DecisionType.ESCALATE
           ELSE DecisionType.MONITOR,
         risk_level |-> risk_level,
         action_context |-> action_context,
         evidence |-> [violations |-> violations, anomalies |-> anomalies],
         escalated_to |-> None,
         proof_hash |-> None]
  IN  [decision EXCEPT !.proof_hash = <<get_decision_hash(decision)>>]

\* _determine_escalation_target
_determine_escalation_target(decision) ==
  IF decision.risk_level = RiskLevel.CRITICAL THEN "security_admin"
  ELSE IF decision.risk_level = RiskLevel.HIGH THEN "system_admin"
  ELSE "monitoring_team"

\* _execute_decision with the default handlers: _handle_escalate sets
\* escalated_to on the decision; the other handlers only log.
_execute_decision(decision) ==
  IF decision.decision_type = DecisionType.ESCALATE
  THEN [decision EXCEPT !.escalated_to = <<_determine_escalation_target(decision)>>]
  ELSE decision

\* The results a monitor gives in the runs that assess risk.
RiskResults ==
  {Result("none", "")} \cup
  {Result(type, severity) :
     type \in {"violation", "anomaly"},
     severity \in {"critical", "high", "medium", "low"}}

\* A reflexive call's record.
ReflexRet(op, args, raised, val) ==
  [op |-> op, args |-> args, raised |-> raised, val |-> val, prev |-> ""]

\* ReflexiveEngine.add_monitor
add_monitor(monitor) ==
  /\ monitors' = Append(monitors, monitor)
  /\ registered' = Append(registered, monitor)
  /\ ret' = ReflexRet("add_monitor", <<monitor>>, FALSE, <<>>)
  /\ UNCHANGED <<storeVars, _block_size, now, writers, merkleVars, builtinVars,
                 contractVars, policyVars, is_running, event_queue, tasks,
                 sim, submitted, handled>>

\* ReflexiveEngine.simulate_risk run to its return with no other coroutine
\* or thread in between: the scenario's monitors are appended, the action
\* is evaluated and the list is put back.
simulate_risk(action_context, scenario) ==
  /\ sim.pc # "eval"
  /\ ret' = ReflexRet("simulate_risk", <<action_context, scenario>>, FALSE,
                      <<ReflexiveDecision(action_context, monitors \o scenario)>>)
  /\ monitors' = monitors
  /\ UNCHANGED <<storeVars, _block_size, now, writers, merkleVars, builtinVars,
                 contractVars, policyVars, registered, is_running,
                 event_queue, tasks, sim, submitted, handled>>

InitRisk ==
  LedgerInit /\ _block_size = 1 /\ WritersIdle /\ MerkleIdle /\ EnginesIdle

NextRisk ==
  \/ \E result \in IF Len(monitors) < MaxMonitors THEN RiskResults ELSE {} :
       add_monitor(Monitor("monitor", result))
  \/ \E action_context \in {"a1"} : simulate_risk(action_context, <<>>)

\* The results of the monitors in the runs where monitors fail: a monitor
\* whose result has type "raise" raises an exception when called.
RaiseResults ==
  {Result("raise", ""), Result("violation", "critical"),
   Result("violation", "low"), Result("anomaly", "medium")}

NextRaise ==
  \/ \E result \in IF Len(monitors) < MaxMonitors THEN RaiseResults ELSE {} :
       add_monitor(Monitor("monitor", result))
  \/ \E action_context \in {"a1"} : simulate_risk(action_context, <<>>)

\* Monitors that raise or report are added and the risk of an action is
\* assessed.
SpecRaise == InitRisk /\ [][NextRaise]_vars

\* Monitors are added and the risk of an action is assessed.
SpecRisk == InitRisk /\ [][NextRisk]_vars

\* ------------------------------------- the processing task and simulations

\* class EventType of the ledger: the names of its members.
EventType ==
  {"TOOL_CALL", "POLICY_DECISION", "DATA_FLOW", "CONTRACT_ACTION",
   "AUTHENTICATION", "AUTHORIZATION", "SYSTEM_EVENT"}

\* The monitors given to add_monitor (the second one only where the engine
\* is started and stopped) and the one a scenario brings.
EngineMonitor == Monitor("m1", Result("violation", "low"))
ScenarioMonitor == Monitor("s1", Result("violation", "critical"))
EscalatingMonitor == Monitor("m2", Result("anomaly", "medium"))

\* The monitors that add_monitor can be given: those neither registered
\* nor in the list.
NotAdded(pool) ==
  pool \ ({registered[i] : i \in DOMAIN registered}
            \cup {monitors[i] : i \in DOMAIN monitors})

\* The actions one producer submits, in its order.
ActionOrder == <<"a1", "a2">>

\* The list object an evaluation iterates over: the one self.monitors is
\* bound to, or the one it was bound to when the evaluation began and that
\* simulate_risk has replaced since.
ListOf(evaluation) ==
  IF evaluation.list = None THEN monitors ELSE evaluation.list[1]

\* _evaluate_action begins on a list that is not empty: "for monitor in
\* self.monitors" takes the first monitor and awaits its call. called
\* holds the monitors called so far, k their number.
Evaluation(action_context, list) ==
  [pc |-> "eval", action |-> action_context, list |-> None, k |-> 1,
   called |-> <<list[1]>>]

\* Whether the list has a monitor after the one whose call returned.
HasNext(evaluation) == evaluation.k < Len(ListOf(evaluation))

\* Lines 174-187: the result of the call is collected and the next monitor
\* of the list is called.
CallNext(evaluation) ==
  [evaluation EXCEPT
     !.called = Append(@, ListOf(evaluation)[evaluation.k + 1]),
     !.k = @ + 1]

\* self.monitors is bound to another list: the evaluations in progress keep
\* the list object they iterate over.
Rebind(ts) ==
  [t \in DOMAIN ts |->
     IF ts[t].pc = "eval" /\ ts[t].list = None
     THEN [ts[t] EXCEPT !.list = <<monitors>>]
     ELSE ts[t]]

\* ReflexiveEngine.start
start ==
  /\ \/ /\ is_running
        /\ UNCHANGED <<is_running, tasks>>
     \/ /\ ~is_running
        /\ is_running' = TRUE
        /\ \E t \in Tasks :
             /\ tasks[t].pc \in {"none", "ended"}
             /\ \A u \in Tasks : tasks[u].pc = "none" => tasks[t].pc = "none"
             /\ tasks' = [tasks EXCEPT ![t] = [pc |-> "loop"]]
  /\ ret' = ReflexRet("start", <<>>, FALSE, <<>>)
  /\ UNCHANGED <<storeVars, _block_size, now, writers, merkleVars, builtinVars,
                 contractVars, policyVars, monitors, registered, event_queue,
                 sim, submitted, handled>>

\* ReflexiveEngine.stop
stop ==
  /\ is_running' = FALSE
  /\ ret' = ReflexRet("stop", <<>>, FALSE, <<>>)
  /\ UNCHANGED <<storeVars, _block_size, now, writers, merkleVars, builtinVars,
                 contractVars, policyVars, monitors, registered, event_queue,
                 tasks, sim, submitted, handled>>

\* self.event_queue = asyncio.Queue(): the queue is built without a
\* maxsize, which is 0; a queue whose maxsize is not positive is never full.
maxsize == 0

\* ReflexiveEngine.submit_action: put waits while the queue is full.
submit_action(action_context) ==
  /\ ~(maxsize > 0 /\ Len(event_queue) >= maxsize)
  /\ event_queue' = Append(event_queue, action_context)
  /\ submitted' = Append(submitted, action_context)
  /\ ret' = ReflexRet("submit_action", <<action_context>>, FALSE, <<>>)
  /\ UNCHANGED <<storeVars, _block_size, now, writers, merkleVars, builtinVars,
                 contractVars, policyVars, monitors, registered, is_running,
                 tasks, sim, handled>>

\* ReflexiveEngine.remove_monitor
remove_monitor(monitor) ==
  /\ LET without(list) ==
           IF IndexOf(list, monitor) = 0 THEN list
           ELSE SubSeq(list, 1, IndexOf(list, monitor) - 1)
                  \o SubSeq(list, IndexOf(list, monitor) + 1, Len(list))
     IN  /\ monitors' = without(monitors)
         /\ registered' = without(registered)
  /\ ret' = ReflexRet("remove_monitor", <<monitor>>, FALSE, <<>>)
  /\ UNCHANGED <<storeVars, _block_size, now, writers, merkleVars, builtinVars,
                 contractVars, policyVars, is_running, event_queue, tasks,
                 sim, submitted, handled>>

\* _log_decision with a ledger attached: the event is built and appended;
\* an exception on the way is caught and logged.
_log_decision(L, decision, prev, t) ==
  IF "REFLEXIVE_DECISION" \in EventType
  THEN AppendResult(L, <<"REFLEXIVE_DECISION", decision.action_context>>,
                    prev, t)
  ELSE L

\* _handle_event, lines 157-163, after the last monitor returned: the
\* decision is made, executed and logged, and the task is back in its loop.
Decide(t, action_context, called) ==
  LET decision == _execute_decision(ReflexiveDecision(action_context, called))
  IN  /\ handled' = Append(handled, [decision |-> decision, called |-> called])
      /\ \E prev \in PreviousHashes(Ledger) :
           Store(_log_decision(Ledger, decision, prev, now))
      /\ tasks' = [tasks EXCEPT ![t] = [pc |-> "loop"]]

\* _process_events, line 142, with an event in the queue: the event is
\* taken and _handle_event runs up to the call of the first monitor, or to
\* its end when there is no monitor.
TakeEvent(t) ==
  /\ event_queue' = Tail(event_queue)
  /\ IF monitors = <<>>
     THEN Decide(t, Head(event_queue), <<>>)
     ELSE /\ tasks' = [tasks EXCEPT ![t] = Evaluation(Head(event_queue), monitors)]
          /\ UNCHANGED <<storeVars, handled>>

\* _process_events, line 139: the flag is read; the task ends, takes the
\* event that is there, or waits for one.
TaskLoop(t) ==
  /\ tasks[t].pc = "loop"
  /\ IF ~is_running
     THEN /\ tasks' = [tasks EXCEPT ![t] = [pc |-> "ended"]]
          /\ UNCHANGED <<storeVars, event_queue, handled>>
     ELSE IF event_queue # <<>> THEN TakeEvent(t)
     ELSE /\ tasks' = [tasks EXCEPT ![t] = [pc |-> "get"]]
          /\ UNCHANGED <<storeVars, event_queue, handled>>
  /\ UNCHANGED <<_block_size, now, ret, writers, merkleVars, builtinVars, contractVars,
                 policyVars, monitors, registered, is_running, sim,
                 submitted>>

\* _process_events, line 142: an event arrives while the task waits.
TaskGet(t) ==
  /\ tasks[t].pc = "get"
  /\ event_queue # <<>>
  /\ TakeEvent(t)
  /\ UNCHANGED <<_block_size, now, ret, writers, merkleVars, builtinVars, contractVars,
                 policyVars, monitors, registered, is_running, sim,
                 submitted>>

\* _process_events, lines 144-146: the wait times out.
TaskTimeout(t) ==
  /\ tasks[t].pc = "get"
  /\ event_queue = <<>>
  /\ tasks' = [tasks EXCEPT ![t] = [pc |-> "loop"]]
  /\ UNCHANGED <<ledgerVars, writers, merkleVars, builtinVars, contractVars, policyVars,
                 monitors, registered, is_running, event_queue, sim,
                 submitted, handled>>

\* _evaluate_action in a task: the monitor awaited returns; the next one
\* is called, or _handle_event runs to its end.
TaskMonitor(t) ==
  /\ tasks[t].pc = "eval"
  /\ IF HasNext(tasks[t])
     THEN /\ tasks' = [tasks EXCEPT ![t] = CallNext(@)]
          /\ UNCHANGED <<storeVars, handled>>
     ELSE Decide(t, tasks[t].action, tasks[t].called)
  /\ UNCHANGED <<_block_size, now, ret, writers, merkleVars, builtinVars, contractVars,
                 policyVars, monitors, registered, is_running, event_queue,
                 sim, submitted>>

\* simulate_risk, lines 363-367: the decision is returned and
\* original_monitors put back.
SimEnd(original_monitors, action_context, called) ==
  /\ ret' = ReflexRet("simulate_risk", <<action_context>>, FALSE,
                      <<ReflexiveDecision(action_context, called)>>)
  /\ monitors' = original_monitors
  /\ tasks' = Rebind(tasks)
  /\ sim' = [pc |-> "returned"]

\* Faulty variant: the simulation's decision is logged to the ledger.
SimLog_appended(L, action_context, prev, t) ==
  AppendResult(L, <<"SYSTEM_EVENT", action_context>>, prev, t)

\* What simulate_risk does to the ledger: it has no call of _log_decision.
SimLog(L, action_context, prev, t) == L

\* simulate_risk, lines 351-363: the list is copied, the scenario's
\* monitors are appended to self.monitors and _evaluate_action runs up to
\* the call of the first monitor, or to the return when there is none.
SimBegin(action_context, scenario) ==
  /\ sim.pc # "eval"
  /\ IF monitors \o scenario = <<>>
     THEN SimEnd(monitors, action_context, <<>>)
     ELSE /\ sim' = [Evaluation(action_context, monitors \o scenario)
                       EXCEPT !.list = <<monitors>>]
          /\ monitors' = monitors \o scenario
          /\ UNCHANGED <<ret, tasks>>
  /\ \E prev \in PreviousHashes(Ledger) :
       Store(SimLog(Ledger, action_context, prev, now))
  /\ UNCHANGED <<_block_size, now, writers, merkleVars, builtinVars, contractVars,
                 policyVars, registered, is_running, event_queue, submitted,
                 handled>>

\* _evaluate_action in simulate_risk: the monitor awaited returns; the
\* next one of self.monitors is called, or the call returns. sim.list
\* holds original_monitors.
SimMonitor ==
  /\ sim.pc = "eval"
  /\ IF sim.k < Len(monitors)
     THEN /\ sim' = [sim EXCEPT !.called = Append(@, monitors[sim.k + 1]),
                                !.k = @ + 1]
          /\ UNCHANGED <<ret, monitors, tasks>>
     ELSE SimEnd(sim.list[1], sim.action, sim.called)
  /\ \E prev \in PreviousHashes(Ledger) :
       Store(SimLog(Ledger, sim.action, prev, now))
  /\ UNCHANGED <<_block_size, now, writers, merkleVars, builtinVars, contractVars,
                 policyVars, registered, is_running, event_queue, submitted,
                 handled>>

\* simulate_risk, line 351: the scenario's action_context is not valid and
\* ActionContext raises.
SimRaise ==
  /\ sim.pc # "eval"
  /\ sim' = [pc |-> "raised"]
  /\ ret' = ReflexRet("simulate_risk", <<"invalid">>, TRUE, <<>>)
  /\ UNCHANGED <<storeVars, _block_size, now, writers, merkleVars, builtinVars,
                 contractVars, policyVars, monitors, registered, is_running,
                 event_queue, tasks, submitted, handled>>

\* The engine is started and stopped while one producer submits actions
\* and the tasks process them.
NextLoop ==
  \/ start
  \/ stop
  \/ \E i \in {Len(submitted) + 1} \cap DOMAIN ActionOrder :
       submit_action(ActionOrder[i])
  \/ \E monitor \in NotAdded({EngineMonitor, EscalatingMonitor}) :
       add_monitor(monitor)
  \/ \E t \in Tasks : TaskLoop(t)
  \/ \E t \in Tasks : TaskGet(t)
  \/ \E t \in Tasks : TaskTimeout(t)
  \/ \E t \in Tasks : TaskMonitor(t)

\* A task can be suspended where it awaits: on the queue and in the call of
\* each monitor.
SpecLoop == InitRisk /\ [][NextLoop]_vars

\* A started engine processes one action while monitors are added and
\* removed and simulations are run.
NextSim ==
  \/ start
  \/ \E i \in {Len(submitted) + 1} \cap {1} : submit_action(ActionOrder[i])
  \/ \E monitor \in NotAdded({EngineMonitor}) : add_monitor(monitor)
  \/ \E monitor \in {EngineMonitor} : remove_monitor(monitor)
  \/ \E t \in Tasks : TaskLoop(t)
  \/ \E t \in Tasks : TaskGet(t)
  \/ \E t \in Tasks : TaskTimeout(t)
  \/ \E t \in Tasks : TaskMonitor(t)
  \/ \E scenario \in {<<>>, <<ScenarioMonitor>>} : SimBegin("sim", scenario)
  \/ SimMonitor
  \/ SimRaise

\* simulate_risk can be suspended in the call of each monitor.
SpecSim == InitRisk /\ [][NextSim]_vars

\* Simulations are run on an engine whose ledger other callers append to.
NextSimLedger ==
  \/ \E ev \in Events : append_event(ev)
  \/ \E monitor \in NotAdded({EngineMonitor}) : add_monitor(monitor)
  \/ \E scenario \in {<<>>, <<ScenarioMonitor>>} : SimBegin("sim", scenario)
  \/ SimMonitor
  \/ SimRaise

SpecSimLedger == InitRisk /\ [][NextSimLedger]_vars

\* ------------------------------------------------- the policy monitor

\* PolicyMonitor._assess_violation_severity
_assess_violation_severity(violations) ==
  LET severities == {violations[i].severity : i \in 1..Len(violations)}
  IN  IF "critical" \in severities THEN "critical"
      ELSE IF "high" \in severities THEN "high"
      ELSE IF "medium" \in severities THEN "medium"
      ELSE "low"

\* PolicyMonitor._check_policy_violations with history as
\* self.violation_history; every recorded violation is less than five
\* minutes old. actor_id.startswith("guest") holds for the actor "guest1";
\* resource_id is None or <<id>>, and the resource "sensitive-db" has
\* "sensitive" in its name.
_check_policy_violations(history, action_context) ==
  LET recent_violations ==
        SelectSeq(history, LAMBDA v : v.actor_id = action_context.actor_id)
  IN  (IF /\ action_context.action_type = "admin_access"
          /\ action_context.actor_id = "guest1"
       THEN <<[rule |-> "admin_access_restriction", severity |-> "high"]>>
       ELSE <<>>)
      \o (IF Len(recent_violations) >= 3
          THEN <<[rule |-> "rate_limit_exceeded", severity |-> "medium"]>>
          ELSE <<>>)
      \o (IF /\ action_context.resource_id = <<"sensitive-db">>
             /\ ~action_context.authorized
          THEN <<[rule |-> "unauthorized_sensitive_access",
                  severity |-> "critical"]>>
          ELSE <<>>)

\* PolicyMonitor.__call__: what it returns (a result of type "none" for
\* None) and self.violation_history afterwards. actor_violations counts
\* the records of each actor and is left out.
PolicyMonitorCall(history, action_context) ==
  LET violations == _check_policy_violations(history, action_context)
  IN  IF violations # <<>>
      THEN [result |-> Result("violation", _assess_violation_severity(violations)),
            history |-> Append(history,
                               [actor_id |-> action_context.actor_id,
                                action_id |-> action_context.action_id])]
      ELSE [result |-> Result("none", ""), history |-> history]

\* _evaluate_action on an engine whose one monitor is the bound __call__ of
\* a PolicyMonitor: the decision, and the monitor's history afterwards.
Monitored(history, action_context) ==
  LET call == PolicyMonitorCall(history, action_context)
  IN  [decision |-> ReflexiveDecision(action_context.action_id,
                                      <<Monitor("PolicyMonitor", call.result)>>),
       violation_history |-> call.history]

\* The action contexts of one actor.
MonitoredContexts(action_id) ==
  {[action_id |-> action_id, actor_id |-> "guest1",
    action_type |-> action_type, resource_id |-> resource_id,
    authorized |-> FALSE] :
     action_type \in {"admin_access", "read"},
     resource_id \in {None, <<"sensitive-db">>}}

\* simulate_risk on that engine, with no monitors in the scenario.
simulate_risk_monitored(action_context) ==
  /\ Len(violation_history) < MaxViolations
  /\ LET evaluation == Monitored(violation_history, action_context)
     IN  /\ violation_history' = evaluation.violation_history
         /\ ret' = ReflexRet("simulate_risk", <<action_context>>, FALSE,
                             <<evaluation.decision>>)
  /\ UNCHANGED <<storeVars, _block_size, now, writers, merkleVars,
                 contractVars, policyVars, reflexVars, role_hierarchy,
                 unsimulated>>

\* _handle_event on that engine for a submitted action, up to the decision
\* of _evaluate_action; the engine without simulations is given the same
\* action.
_evaluate_action_monitored(action_context) ==
  /\ Len(violation_history) < MaxViolations
  /\ LET evaluation == Monitored(violation_history, action_context)
     IN  /\ violation_history' = evaluation.violation_history
         /\ ret' = ReflexRet("_evaluate_action", <<action_context>>, FALSE,
                             <<evaluation.decision>>)
  /\ unsimulated' = Monitored(unsimulated.violation_history, action_context)
  /\ UNCHANGED <<storeVars, _block_size, now, writers, merkleVars,
                 contractVars, policyVars, reflexVars, role_hierarchy>>

NextMonitored ==
  \/ \E action_context \in MonitoredContexts("sim") :
       simulate_risk_monitored(action_context)
  \/ \E action_context \in MonitoredContexts("a1") :
       _evaluate_action_monitored(action_context)

\* Actions are evaluated and simulations are run on an engine with a
\* PolicyMonitor.
SpecMonitored == InitRisk /\ [][NextMonitored]_vars

\* ------------------------------------------------- a new ledger instance

\* ProvenanceLedger.__init__ on the store of an earlier instance: the
\* sequence counter is read from the stored entries and there is no
\* current block, whatever blocks are stored. The block size is the one
\* the earlier instance was given.
__init__ ==
  /\ _current_sequence' = _get_next_sequence_number(entries)
  /\ _current_block' = None
  /\ ret' = Call("__init__", <<>>, FALSE, <<>>)
  /\ UNCHANGED <<entries, blocks, _block_size, now, writers, merkleVars,
                 engineVars>>

NextReopen ==
  \/ \E ev \in Events : append_event(ev)
  \/ seal_current_block
  \/ Tick
  \/ __init__

\* One writer at a time; the ledger can be closed and opened again on the
\* same store between calls.
SpecReopen == Init /\ [][NextReopen]_vars

\* ==================================================================== HTTP

\* JSONResponse(status_code, content): content is the error text, or "ok".
JSONResponse(status_code, content) ==
  [status_code |-> status_code, content |-> content]

\* An endpoint's record: the path parameter and the response.
HttpRet(op, param, response) ==
  [op |-> op, args |-> <<param>>, raised |-> FALSE, val |-> <<response>>,
   prev |-> ""]

\* get_contract_endpoint: GET /contracts/{id}
get_contract_endpoint(id) ==
  /\ ret' = HttpRet("get_contract_endpoint", id,
                    IF get_contract(contracts, id) = 0
                    THEN JSONResponse(404, "Contract not found")
                    ELSE JSONResponse(200, "ok"))
  /\ UNCHANGED <<storeVars, _block_size, now, writers, merkleVars, engineVars>>

\* propose_contract_endpoint: POST /contracts/{id}/propose.
\* ContractEngine.propose_contract raises ValueError for a contract that is
\* not found or not in DRAFT, and the endpoint answers a ValueError with
\* 400; the engine returns no None for the 404 branch to see.
propose_contract_endpoint(id) ==
  /\ LET i == get_contract(contracts, id)
     IN  IF i = 0
         THEN /\ ret' = HttpRet("propose_contract_endpoint", id,
                                JSONResponse(400, "Invalid request"))
              /\ UNCHANGED contracts
         ELSE LET result == ProposeResult(contracts[i], now)
              IN  /\ ret' = HttpRet("propose_contract_endpoint", id,
                                    IF result.raised
                                    THEN JSONResponse(400, "Invalid request")
                                    ELSE JSONResponse(200, "ok"))
                  /\ contracts' = [contracts EXCEPT ![i] = result.contract]
  /\ UNCHANGED <<storeVars, _block_size, now, writers, merkleVars, signing,
                 policyVars, reflexVars, builtinVars>>

\* verify_block_endpoint: GET /ledger/verify/{block}
verify_block_endpoint(block_number) ==
  /\ ret' = HttpRet("verify_block_endpoint", block_number,
                    IF ~verify_block_integrity(entries, blocks, block_number)
                    THEN JSONResponse(400, "Block integrity verification failed")
                    ELSE JSONResponse(200, "ok"))
  /\ UNCHANGED <<storeVars, _block_size, now, writers, merkleVars, engineVars>>

\* get_block_endpoint: GET /ledger/blocks/{block}
get_block_endpoint(block_number) ==
  /\ ret' = HttpRet("get_block_endpoint", block_number,
                    IF get_block(blocks, block_number) = 0
                    THEN JSONResponse(404, "Block not found")
                    ELSE JSONResponse(200, "ok"))
  /\ UNCHANGED <<storeVars, _block_size, now, writers, merkleVars, engineVars>>

\* ProvenanceLedger.get_entry: the row with the sequence number, 0 if none.
get_entry(es, sequence_number) ==
  LET S == {i \in 1..Len(es) : es[i].sequence_number = sequence_number}
  IN  IF S = {} THEN 0 ELSE CHOOSE i \in S : \A j \in S : i <= j

\* get_entry_endpoint: GET /ledger/entries/{sequence}
get_entry_endpoint(sequence_number) ==
  /\ ret' = HttpRet("get_entry_endpoint", sequence_number,
                    IF get_entry(entries, sequence_number) = 0
                    THEN JSONResponse(404, "Entry not found")
                    ELSE JSONResponse(200, "ok"))
  /\ UNCHANGED <<storeVars, _block_size, now, writers, merkleVars, engineVars>>

\* Events are appended and a contract is created while requests address
\* contracts, blocks and entries that exist or not.
NextHttp ==
  \/ \E ev \in Events : append_event(ev)
  \/ \E id \in OneContract : create_contract(id, PartyIds, None)
  \/ \E id \in OneContract \cup {UnknownId} : get_contract_endpoint(id)
  \/ \E id \in OneContract \cup {UnknownId} : propose_contract_endpoint(id)
  \/ \E block_number \in 1..(MaxEntries + 1) : verify_block_endpoint(block_number)
  \/ \E block_number \in 1..(MaxEntries + 1) : get_block_endpoint(block_number)
  \/ \E sequence_number \in 1..(MaxEntries + 1) :
       get_entry_endpoint(sequence_number)

SpecHttp == InitContract /\ [][NextHttp]_vars

\* =================================================================== claims

Sealed(id) == blocks[id].sealed_at # None

\* C1: after any sequence of append_event and seal_current_block calls,
\* every stored entry with sequence_number N > 1 has previous_hash equal to
\* the stored entry_hash of the entry with sequence_number N-1, and entry 1
\* has no previous_hash.
C1_HashChain ==
  \A i \in 1..Len(entries) :
    LET e == entries[i]
        before == RowsWithSeq(entries, e.sequence_number - 1)
    IN  IF e.sequence_number = 1 THEN e.previous_hash = None
        ELSE /\ before # {}
             /\ \A j \in before : e.previous_hash = entries[j].entry_hash

C1_Witness ==
  /\ Len(entries) >= 3
  /\ \E id \in 1..Len(blocks) : Sealed(id)
  /\ entries[3].previous_hash = entries[2].entry_hash
  /\ entries[2].previous_hash = entries[1].entry_hash

\* C5: for every block the ledger sealed, automatically or through
\* seal_current_block, the stored merkle_root is the root of the Merkle
\* tree over the entry_hash values of the entries assigned to the block, in
\* sequence order, and verify_block_integrity returns true for the block.
C5_SealedRoot ==
  \A id \in 1..Len(blocks) :
    Sealed(id) =>
      /\ BlockEntries(entries, id) # <<>>
      /\ blocks[id].merkle_root =
           get_root(MerkleTree(EntryHashes(BlockEntries(entries, id))))
      /\ verify_block_integrity(entries, blocks, blocks[id].block_number)

C5_Witness ==
  \E id \in 1..Len(blocks) :
    /\ Sealed(id)
    /\ Len(BlockEntries(entries, id)) >= 2
    /\ \E i \in 1..Len(entries) : entries[i].block_id > id

\* C7: the append that brings the open block's entry count to block_size
\* seals the block within the same call: no block ever holds more than
\* block_size entries, a block holding block_size entries is sealed, and
\* the append after it opens a block whose block_number is one higher.
C7_BlockSize ==
  /\ \A id \in 1..Len(blocks) :
       /\ Len(BlockEntries(entries, id)) <= _block_size
       /\ Len(BlockEntries(entries, id)) = _block_size => Sealed(id)
  /\ \A i \in 1..(Len(entries) - 1) :
       LET b1 == entries[i].block_id
           b2 == entries[i + 1].block_id
       IN  \/ b2 = b1
           \/ /\ blocks[b2].block_number = blocks[b1].block_number + 1
              /\ Sealed(b1)

C7_Witness ==
  /\ _block_size >= 2
  /\ \E id \in 1..Len(blocks) :
       /\ Len(BlockEntries(entries, id)) = _block_size
       /\ Sealed(id)
       /\ \E i \in 1..Len(entries) :
            blocks[entries[i].block_id].block_number =
              blocks[id].block_number + 1

\* C8: once a block is sealed, no later append_event or seal_current_block
\* call changes its merkle_root, sealed_at, entry_count, first and last
\* entry sequence, or the set of entries assigned to it.
C8_SealedImmutable ==
  [][\A id \in 1..Len(blocks) :
       Sealed(id) =>
         /\ id <= Len(blocks')
         /\ blocks'[id] = blocks[id]
         /\ BlockEntries(entries', id) = BlockEntries(entries, id)]_vars

C8_Witness ==
  \E id \in 1..Len(blocks) :
    /\ Sealed(id)
    /\ \E j \in 1..Len(blocks) : j > id /\ Sealed(j)
    /\ blocks[id].sealed_at # blocks[Len(blocks)].sealed_at

\* C9: seal_current_block is idempotent: called again with no append in
\* between, or called when no block is open, it changes nothing in the
\* ledger.
C9_SealIdempotent ==
  [][(/\ ret'.op = "seal_current_block"
      /\ \/ ret'.prev = "seal_current_block"
         \/ _current_block = None)
     => UNCHANGED storeVars]_vars

C9_Witness ==
  /\ ret.op = "seal_current_block"
  /\ ret.prev = "seal_current_block"
  /\ ret.val = <<FALSE>>
  /\ \E id \in 1..Len(blocks) : Sealed(id) /\ blocks[id].sealed_at # <<now>>


\* C2: after any sequence of append_event calls, including calls that raise
\* part-way through, the stored sequence numbers are exactly 1..K, with no
\* gap and no number used twice.
C2_GapFree ==
  \A n \in 1..Len(entries) : Cardinality(RowsWithSeq(entries, n)) = 1

\* C3: with concurrent writers each append gets a distinct, strictly
\* increasing sequence number and chains to the entry immediately before
\* it, as if the appends had run one at a time.
C3_Serialized ==
  \A i \in 1..Len(entries) :
    /\ entries[i].sequence_number = i
    /\ entries[i].previous_hash =
         IF i = 1 THEN None ELSE entries[i - 1].entry_hash

\* C4: append_event is atomic: a call that raises leaves the stored
\* entries, the stored blocks, the in-memory sequence counter and the open
\* block as they were before the call.
C4_Atomic ==
  [][(ret'.op = "append_event" /\ ret'.raised) => UNCHANGED storeVars]_vars

\* What C6 says verify_chain_integrity returns: true exactly when every
\* stored entry in the range recomputes and every entry in the range with
\* sequence_number N > 1, the first of the range included, carries the
\* stored entry_hash of entry N-1.
ClaimedChainVerdict(start_sequence, end_sequence) ==
  \A i \in 1..Len(entries) :
    LET e == entries[i]
        before == RowsWithSeq(entries, e.sequence_number - 1)
    IN  (/\ e.sequence_number >= start_sequence
         /\ (end_sequence # 0 => e.sequence_number <= end_sequence))
        => /\ entry_verify_integrity(e)
           /\ e.sequence_number > 1 =>
                /\ before # {}
                /\ \A j \in before : e.previous_hash = entries[j].entry_hash

\* C6: verify_chain_integrity(start, end) returns true exactly when every
\* stored entry in the range has an entry_hash that recomputes from its
\* fields and every entry in the range with sequence_number N > 1,
\* including the first entry of the range, has previous_hash equal to the
\* stored entry_hash of entry N-1.
C6_ChainVerdict ==
  ret.op = "verify_chain_integrity" =>
    ret.val[1] = ClaimedChainVerdict(ret.args[1], ret.args[2])

\* C10: for every non-empty list of leaf hashes and every leaf in it, at
\* any position and for any list length, generate_proof returns a proof
\* whose root_hash is the tree's root and whose verify() returns true.
C10_ProofVerifies ==
  (/\ m_pc = "built"
   /\ m_leaf # None
   /\ \E k \in 1..Len(m_leaves) : m_leaves[k] = m_leaf[1])
  => /\ m_proof # None
     /\ m_proof[1].root_hash = get_root(m_tree[1])
     /\ m_verified # None => m_verified[1]

\* C11: a Merkle proof is never accepted for a value that is not one of the
\* leaves the tree was built from: generate_proof returns no proof for such
\* a value, and no proof whose leaf_hash is not a leaf of the tree verifies
\* against that tree's root.
C11_NoForeignProof ==
  m_pc = "built" =>
    LET leaves == {m_leaves[k] : k \in 1..Len(m_leaves)}
    IN  /\ (m_leaf # None /\ m_leaf[1] \notin leaves) => m_proof = None
        /\ (/\ m_proof # None
            /\ m_proof[1].leaf_hash \notin leaves
            /\ m_proof[1].root_hash = get_root(m_tree[1])
            /\ m_verified # None)
           => ~m_verified[1]

\* The call a step makes: every call leaves the clock alone and records
\* itself in ret; Tick changes the clock only.
IsCall(op) == now' = now /\ ret'.op = op

\* The legal table of contract states, as pairs <<from, to>>.
LegalTable ==
  {<<DRAFT, PROPOSED>>, <<DRAFT, REVOKED>>,
   <<PROPOSED, SIGNED>>, <<PROPOSED, REVOKED>>, <<PROPOSED, DRAFT>>,
   <<SIGNED, REVOKED>>}

\* C12 as stated: every change of a contract's state made by propose, sign,
\* revoke or cleanup_expired is a transition listed in the legal table
\* (DRAFT to PROPOSED or REVOKED; PROPOSED to SIGNED, REVOKED or DRAFT;
\* SIGNED to REVOKED); no other state change ever occurs.
C12_LegalTransitions ==
  [][\A i \in 1..Len(contracts) :
       contracts'[i].state # contracts[i].state
         => <<contracts[i].state, contracts'[i].state>> \in LegalTable]_vars

\* C12 as amended: every change of a contract's state made by propose, sign
\* or revoke is a transition listed in the legal table; cleanup_expired
\* changes a state only from DRAFT, PROPOSED or SIGNED to EXPIRED; no other
\* state change ever occurs.
C12_LegalOrExpired ==
  [][\A i \in 1..Len(contracts) :
       contracts'[i].state # contracts[i].state
         => \/ /\ ret'.op \in {"propose_contract", "sign_contract",
                               "revoke_contract"}
               /\ <<contracts[i].state, contracts'[i].state>> \in LegalTable
            \/ /\ ret'.op = "cleanup_expired_contracts"
               /\ contracts[i].state \in {DRAFT, PROPOSED, SIGNED}
               /\ contracts'[i].state = EXPIRED]_vars

C12_Witness ==
  /\ ret.op = "cleanup_expired_contracts"
  /\ ret.val = <<1>>
  /\ \E i \in 1..Len(contracts) :
       /\ contracts[i].state = EXPIRED
       /\ contracts[i].signed_at # None

\* C13: whenever a contract is in state SIGNED, every party id appears
\* among its signatures' signer_ids and every stored signature verifies
\* against the message id:content_hash:signer_id:signer_type under its
\* stored public key.
C13_SignedCovered ==
  \A i \in 1..Len(contracts) :
    LET c == contracts[i]
    IN  c.state = SIGNED =>
          /\ \A p \in c.parties :
               \E k \in 1..Len(c.signatures) : c.signatures[k].signer_id = p
          /\ \A k \in 1..Len(c.signatures) :
               LET sig == c.signatures[k]
               IN  verify_signature(
                     sig.public_key,
                     <<c.id, get_content_hash(c), sig.signer_id, sig.signer_type>>,
                     sig.signature)

C13_Witness ==
  \E i \in 1..Len(contracts) :
    /\ contracts[i].state = SIGNED
    /\ contracts[i].parties = {"p1"}
    /\ Len(contracts[i].signatures) = 2
    /\ contracts[i].signatures[1].signer_id = "p2"

\* C14: once a contract is REVOKED or EXPIRED, every later propose, sign,
\* revoke or cleanup_expired call leaves its state and its signature list
\* unchanged, and the explicit operations fail with an error.
C14_TerminalStays ==
  [][\A i \in 1..Len(contracts) :
       contracts[i].state \in {REVOKED, EXPIRED} =>
         /\ contracts'[i].state = contracts[i].state
         /\ contracts'[i].signatures = contracts[i].signatures
         /\ \A op \in {"propose_contract", "sign_contract", "revoke_contract"} :
              (IsCall(op) /\ ret'.args[1] = contracts[i].id) => ret'.raised]_vars

C14_Witness ==
  \E i \in 1..Len(contracts) :
    /\ contracts[i].state = EXPIRED
    /\ contracts[i].signatures # <<>>
    /\ ret.op = "revoke_contract"
    /\ ret.args[1] = contracts[i].id
    /\ ret.raised

\* C15: a successful sign on a PROPOSED contract leaves it SIGNED exactly
\* when, after the signature is added, the signer_ids cover all party ids,
\* and leaves it PROPOSED otherwise; a signature from a signer who is not a
\* party does not count toward coverage.
C15_SignedOnCoverage ==
  [][\A i \in 1..Len(contracts) :
       (/\ IsCall("sign_contract")
        /\ ret'.args[1] = contracts[i].id
        /\ ~ret'.raised
        /\ contracts[i].state = PROPOSED)
       => LET after == contracts'[i]
              covered ==
                \A p \in after.parties :
                  \E k \in 1..Len(after.signatures) :
                    after.signatures[k].signer_id = p
          IN  /\ Len(after.signatures) = Len(contracts[i].signatures) + 1
              /\ after.signatures[Len(after.signatures)].signer_id =
                   ret'.args[2].signer_id
              /\ after.state = IF covered THEN SIGNED ELSE PROPOSED]_vars

C15_Witness ==
  \E i \in 1..Len(contracts) :
    /\ ret.op = "sign_contract"
    /\ ~ret.raised
    /\ ret.args[1] = contracts[i].id
    /\ contracts[i].state = PROPOSED
    /\ contracts[i].parties = {"p1"}
    /\ ret.args[2].signer_id = "p2"

\* C17: in every stored contract the signatures have pairwise distinct
\* signer_ids: a sign request whose signer_id already has a signature on
\* that contract is rejected and adds nothing.
C17_OneSignaturePerSigner ==
  [][\A i \in 1..Len(contracts) :
       /\ \A k, l \in 1..Len(contracts'[i].signatures) :
            contracts'[i].signatures[k].signer_id =
              contracts'[i].signatures[l].signer_id => k = l
       /\ (/\ IsCall("sign_contract")
           /\ ret'.args[1] = contracts[i].id
           /\ \E k \in 1..Len(contracts[i].signatures) :
                contracts[i].signatures[k].signer_id = ret'.args[2].signer_id)
          => ret'.raised /\ contracts' = contracts]_vars

C17_Witness ==
  \E i \in 1..Len(contracts) :
    /\ ret.op = "sign_contract"
    /\ ret.raised
    /\ ret.args[1] = contracts[i].id
    /\ contracts[i].state = PROPOSED
    /\ \E k \in 1..Len(contracts[i].signatures) :
         /\ contracts[i].signatures[k].signer_id = ret.args[2].signer_id
         /\ contracts[i].signatures[k].signature = ret.args[2].signature

\* C18: a sign request is rejected with an error, and the stored contract
\* (state, signatures, timestamps) is left unchanged, whenever the contract
\* is not in PROPOSED or SIGNED or the signature does not verify over
\* id:content_hash:signer_id:signer_type under the supplied public key.
C18_SignRejected ==
  [][\A i \in 1..Len(contracts) :
       LET c == contracts[i]
           request == ret'.args[2]
       IN  (/\ IsCall("sign_contract")
            /\ ret'.args[1] = c.id
            /\ \/ c.state \notin {PROPOSED, SIGNED}
               \/ ~verify_signature(
                     request.public_key,
                     <<c.id, get_content_hash(c), request.signer_id,
                       request.signer_type>>,
                     request.signature))
           => ret'.raised /\ contracts'[i] = c]_vars

C18_Witness ==
  \E i \in 1..Len(contracts) :
    LET c == contracts[i]
    IN  /\ ret.op = "sign_contract"
        /\ ret.raised
        /\ ret.args[1] = c.id
        /\ c.state = PROPOSED
        /\ c.signatures = <<>>
        /\ ret.args[2].signature =
             Ed25519Sign(ret.args[2].public_key,
                         <<c.id, get_content_hash(c), "p1", SignerType>>)
        /\ ret.args[2].signer_id = "p2"

\* C19: cleanup_expired sets to EXPIRED exactly the contracts whose
\* expires_at is earlier than now and whose state is neither EXPIRED nor
\* REVOKED, returns their number, and changes no other contract.
C19_CleanupExpired ==
  [][IsCall("cleanup_expired_contracts") =>
       LET due == {i \in 1..Len(contracts) :
                     /\ contracts[i].expires_at # None
                     /\ contracts[i].expires_at[1] < now
                     /\ contracts[i].state \notin {EXPIRED, REVOKED}}
       IN  /\ ret'.val = <<Cardinality(due)>>
           /\ Len(contracts') = Len(contracts)
           /\ \A i \in 1..Len(contracts) :
                IF i \in due
                THEN contracts'[i].state = EXPIRED
                ELSE contracts'[i] = contracts[i]]_vars

C19_Witness ==
  /\ ret.op = "cleanup_expired_contracts"
  /\ ret.val = <<1>>
  /\ Len(contracts) = 2
  /\ \E i, j \in 1..Len(contracts) :
       /\ contracts[i].state = EXPIRED
       /\ contracts[i].expires_at = <<0>>
       /\ contracts[i].last_modified = 1
       /\ contracts[j].state = REVOKED
       /\ contracts[j].expires_at = <<0>>
       /\ contracts[j].last_modified = 0

\* C16: when two sign requests from different signers on the same contract
\* run concurrently, both signatures end up stored and the final state
\* reflects both: if together they complete coverage the contract ends
\* SIGNED; neither a signature nor the state update is lost.
C16_BothSignaturesLand ==
  \A w1, w2 \in Writers :
    (/\ w1 # w2
     /\ signing[w1].pc = "done"
     /\ signing[w2].pc = "done"
     /\ signing[w1].id = signing[w2].id
     /\ signing[w1].request.signer_id # signing[w2].request.signer_id)
    => LET c == contracts[get_contract(contracts, signing[w1].id)]
       IN  /\ signing[w1].request.signer_id \in SignedPartyIds(c)
           /\ signing[w2].request.signer_id \in SignedPartyIds(c)
           /\ c.parties \subseteq SignedPartyIds(c) => c.state = SIGNED

\* The positions of the chain of the last evaluate call that hold a
\* registered policy of one of the behaviours.
ChainPositions(behaviours) ==
  LET chain == ChainOf(_policies, _evaluation_order, ret.args[1])
  IN  {k \in 1..Len(chain) :
         /\ get_policy(_policies, chain[k]) # 0
         /\ _policies[get_policy(_policies, chain[k])].behaviour \in behaviours}

\* The registered policies among the first k names of the chain.
RegisteredUpTo(k) ==
  LET chain == ChainOf(_policies, _evaluation_order, ret.args[1])
  IN  SelectSeq(SubSeq(chain, 1, k),
                LAMBDA name : get_policy(_policies, name) # 0)

\* C20 as stated: for any configured chain of policies, if at least one
\* policy in the chain denies, evaluate returns deny carrying the reason of
\* the first denying policy in chain order, and no policy after it is
\* evaluated.
C20_FirstDenyWins ==
  (ret.op = "evaluate" /\ ChainPositions({"deny"}) # {}) =>
    LET chain == ChainOf(_policies, _evaluation_order, ret.args[1])
        k == MaxOf({j \in ChainPositions({"deny"}) :
                      \A l \in ChainPositions({"deny"}) : j <= l})
    IN  /\ ~ret.val[1].allow
        /\ ret.val[1].reason = <<"deny", chain[k]>>
        /\ evaluated = RegisteredUpTo(k)

\* C20 as amended: for any configured chain of policies, if at least one
\* policy in the chain denies or raises, evaluate returns deny carrying the
\* reason of the first policy in chain order that denies or raises (for a
\* policy that raises, the evaluation-error reason naming its error), and
\* no policy after it is evaluated.
C20_FirstDenyOrErrorWins ==
  (ret.op = "evaluate" /\ ChainPositions({"deny", "raise"}) # {}) =>
    LET chain == ChainOf(_policies, _evaluation_order, ret.args[1])
        k == MaxOf({j \in ChainPositions({"deny", "raise"}) :
                      \A l \in ChainPositions({"deny", "raise"}) : j <= l})
    IN  /\ ~ret.val[1].allow
        /\ ret.val[1].reason =
             IF k \in ChainPositions({"deny"})
             THEN <<"deny", chain[k]>>
             ELSE <<"Policy evaluation error: ", PolicyError>>
        /\ evaluated = RegisteredUpTo(k)

C20_Witness ==
  /\ ret.op = "evaluate"
  /\ ret.args[1] = None
  /\ _evaluation_order = <<"policy2", "policy1", "policy2">>
  /\ ChainPositions({"allow"}) = {1, 3}
  /\ ChainPositions({"deny"}) = {2}
  /\ evaluated = <<"policy2", "policy1">>
  /\ ret.val[1].reason = <<"deny", "policy1">>

\* The first position of the chain of the last evaluate call that holds a
\* registered policy that denies or raises; 0 when there is none.
FirstStop ==
  LET stops == ChainPositions({"deny", "raise"})
  IN  IF stops = {} THEN 0
      ELSE CHOOSE j \in stops : \A l \in stops : j <= l

\* The parts a reason is made of.
Parts(reason) == {reason[i] : i \in 1..Len(reason)}

\* C21: if a policy raises an exception during evaluation, evaluate never
\* propagates it: it returns a deny decision whose reason names the policy
\* and the error.
C21_ErrorDenyNamesPolicy ==
  (/\ ret.op = "evaluate"
   /\ FirstStop # 0
   /\ FirstStop \in ChainPositions({"raise"})) =>
    LET chain == ChainOf(_policies, _evaluation_order, ret.args[1])
    IN  /\ ~ret.raised
        /\ ~ret.val[1].allow
        /\ chain[FirstStop] \in Parts(ret.val[1].reason)
        /\ PolicyError \in Parts(ret.val[1].reason)

\* C22: evaluate returns allow only when every policy named in the chain
\* was found, evaluated and allowed, and the evidence of that aggregate
\* allow lists exactly the names of the policies that were evaluated.
C22_AllowMeansAllAllowed ==
  (ret.op = "evaluate" /\ ret.val[1].allow) =>
    LET chain == ChainOf(_policies, _evaluation_order, ret.args[1])
    IN  /\ ChainPositions({"allow"}) = 1..Len(chain)
        /\ evaluated = chain
        /\ ret.val[1].proof[1].evaluated_policies = evaluated

\* The findings the last simulate_risk call had to collect: the results
\* of type violation or anomaly of the monitors and the scenario's monitors.
Findings ==
  LET all == monitors \o ret.args[2]
  IN  {i \in 1..Len(all) : all[i].result.type \in {"violation", "anomaly"}}

\* Whether one of the findings has the severity.
AnyFinding(severity) ==
  \E i \in Findings : (monitors \o ret.args[2])[i].result.severity = severity

\* The risk level the findings call for.
ClaimedRisk ==
  IF AnyFinding("critical") THEN RiskLevel.CRITICAL
  ELSE IF AnyFinding("high") \/ Cardinality(Findings) >= 5 THEN RiskLevel.HIGH
  ELSE IF AnyFinding("medium") \/ Cardinality(Findings) >= 2 THEN RiskLevel.MEDIUM
  ELSE RiskLevel.LOW

\* C23: for any set of monitor outputs, the decision is ALLOW when no
\* violation or anomaly was collected; otherwise the risk level is CRITICAL
\* if any finding is critical, HIGH if any is high or there are at least 5
\* findings, MEDIUM if any is medium or there are at least 2 findings, else
\* LOW, and the decision is HALT for CRITICAL or HIGH, ESCALATE for MEDIUM
\* and MONITOR for LOW.
C23_RiskDecision ==
  ret.op = "simulate_risk" =>
    IF Findings = {} THEN ret.val[1].decision_type = DecisionType.ALLOW
    ELSE /\ ret.val[1].risk_level = ClaimedRisk
         /\ ret.val[1].decision_type =
              CASE ClaimedRisk \in {RiskLevel.CRITICAL, RiskLevel.HIGH}
                     -> DecisionType.HALT
                [] ClaimedRisk = RiskLevel.MEDIUM -> DecisionType.ESCALATE
                [] ClaimedRisk = RiskLevel.LOW -> DecisionType.MONITOR

C23_Witness ==
  /\ ret.op = "simulate_risk"
  /\ Cardinality(Findings) = 5
  /\ \A i \in Findings : monitors[i].result.severity = "low"
  /\ ret.val[1].risk_level = RiskLevel.HIGH
  /\ ret.val[1].decision_type = DecisionType.HALT

\* The place of a risk level in LOW < MEDIUM < HIGH < CRITICAL.
RiskRank(risk_level) ==
  CASE risk_level = RiskLevel.LOW -> 1
    [] risk_level = RiskLevel.MEDIUM -> 2
    [] risk_level = RiskLevel.HIGH -> 3
    [] risk_level = RiskLevel.CRITICAL -> 4

\* C26: adding a violation or anomaly to the collected findings never
\* lowers the assessed risk level (ordered LOW < MEDIUM < HIGH < CRITICAL).
C26_RiskMonotone ==
  [][(ret.op = "simulate_risk" /\ ret'.op = "add_monitor"
      /\ ret'.args[1].result.type \in {"violation", "anomaly"}) =>
       LET violations == Collected(monitors, "violation")
           anomalies == Collected(monitors, "anomaly")
           violations2 == Collected(monitors', "violation")
           anomalies2 == Collected(monitors', "anomaly")
       IN  /\ ret.val[1].risk_level = _assess_risk_level(violations, anomalies)
           /\ RiskRank(_assess_risk_level(violations2, anomalies2))
                >= RiskRank(ret.val[1].risk_level)]_vars

C26_Witness ==
  /\ ret.op = "add_monitor"
  /\ ret.args[1].result = Result("anomaly", "low")
  /\ Len(monitors) = 5
  /\ Collected(monitors, "violation")
       = <<Result("violation", "medium"), Result("violation", "low")>>
  /\ Len(Collected(monitors, "anomaly")) = 3
  /\ _assess_risk_level(Collected(SubSeq(monitors, 1, 4), "violation"),
                        Collected(SubSeq(monitors, 1, 4), "anomaly"))
       = RiskLevel.MEDIUM
  /\ _assess_risk_level(Collected(monitors, "violation"),
                        Collected(monitors, "anomaly")) = RiskLevel.HIGH

\* The ledger entries that record a reflexive decision.
ReflexiveEntries ==
  {i \in 1..Len(entries) : entries[i].event_data[1] = "REFLEXIVE_DECISION"}

\* C24: for every action that a running engine with an attached ledger
\* takes from its queue and evaluates, exactly one entry with event_type
\* reflexive_decision is appended to the ledger.
C24_OneEntryPerAction == Cardinality(ReflexiveEntries) = Len(handled)

\* A step of a simulate_risk call.
IsSimStep == sim' # sim

\* C25: simulate_risk never writes to the ledger: the ledger's entries,
\* blocks and statistics are identical before and after any simulate_risk
\* call, also when a ledger is attached to the engine.
C25_SimulationLeavesLedger ==
  [][IsSimStep => UNCHANGED <<entries, blocks, _current_sequence,
                              _current_block>>]_vars

C25_Witness ==
  /\ ret.op = "simulate_risk"
  /\ ~ret.raised
  /\ ret.val[1].decision_type = DecisionType.HALT
  /\ Len(ret.val[1].evidence.violations) = 2
  /\ Len(entries) = 2
  /\ Len(blocks) = 2

\* C27: under any interleaving of simulate_risk with the processing of
\* queued actions, the decision for a queued action is computed only from
\* the monitors registered with add_monitor; a simulation's scenario
\* monitors never take part in it.
C27_NoScenarioMonitorInDecision ==
  \A i \in 1..Len(handled) :
    \A k \in 1..Len(handled[i].called) :
      handled[i].called[k] # ScenarioMonitor

\* A simulate_risk call returns or raises.
IsSimEnd == sim' # sim /\ sim'.pc \in {"returned", "raised"}

\* C28: when simulate_risk returns or raises, the engine's monitor list
\* holds exactly the monitors registered through add_monitor and not
\* removed, in their order, including monitors added or removed while the
\* simulation was in progress; no scenario monitor remains.
C28_MonitorsRestored == [][IsSimEnd => monitors' = registered']_vars

\* Where an action stands in the order of submission.
SubmittedAt(action_context) == IndexOf(submitted, action_context)

\* C29: actions submitted by one producer through submit_action are
\* evaluated, and their decisions executed and logged, in the order in
\* which they were submitted.
C29_HandledInOrder ==
  \A i, j \in 1..Len(handled) :
    i < j => SubmittedAt(handled[i].decision.action_context)
               < SubmittedAt(handled[j].decision.action_context)

\* C30: after stop() is called, the processing task halts: it takes no
\* further event from the queue and terminates within one poll interval of
\* one second.
C30_NoEventAfterStop ==
  [][Len(event_queue') < Len(event_queue) => is_running]_vars

\* C31: the event queue is bounded: it has a fixed positive capacity and the
\* number of pending events never exceeds it, whether or not the engine is
\* running.
C31_QueueBounded ==
  event_queue # <<>> => maxsize > 0 /\ Len(event_queue) <= maxsize

\* C32: a decision is not modified after its proof_hash is set: for every
\* decision that has been executed and logged, proof_hash is the hash of the
\* decision as it stands, escalated_to included.
C32_ProofHashCurrent ==
  \A i \in DOMAIN handled :
    handled[i].decision.proof_hash = <<get_decision_hash(handled[i].decision)>>

\* The roles reachable from a set of roles by following role_hierarchy any
\* number of steps, among the roles that are defined.
RECURSIVE Reachable(_)
Reachable(from) ==
  LET next == from \cup UNION {role_hierarchy[role] \cap DOMAIN roles :
                                 role \in from \cap DOMAIN role_hierarchy}
  IN  IF next = from THEN from ELSE Reachable(next)

\* C33: a user holds every permission of every role reachable from their
\* roles through inherited-role links, any number of steps; an action is
\* permitted exactly when that set contains "*", the action itself, or a
\* permission that lists the action as a synonym.
C33_TransitivePermissions ==
  (ret.op = "rbac_evaluate" /\ ret.args[1].user.roles # {}) =>
    LET held == UNION {roles[role] :
                         role \in Reachable(ret.args[1].user.roles
                                               \cap DOMAIN roles)}
        action == ret.args[1].action
    IN  ret.val[1].proof.permission_check
          <=> \/ "*" \in held
              \/ action \in held
              \/ \E permission \in DOMAIN permissions \cap held :
                   action \in permissions[permission]

\* The first rule that triggers for a context, in the order: non-PHI,
\* emergency, patient restriction, deceased over 50 years, authorization
\* gate, then the actor branch.
FirstRule(context) ==
  LET purpose == IF context.purpose = None THEN ""
                 ELSE IF context.purpose[1] = "Payment" THEN "payment"
                 ELSE context.purpose[1]
  IN  IF ~context.resource.is_phi THEN "non-PHI"
      ELSE IF context.is_emergency_access THEN "emergency"
      ELSE IF /\ context.patient.has_restriction
              /\ context.patient.restriction_details
                   = [action |-> context.action,
                      recipient |-> context.recipient.id]
      THEN "restriction"
      ELSE IF /\ context.patient.is_deceased
              /\ context.patient.date_of_death = <<"over 50 years ago">>
      THEN "deceased"
      ELSE IF /\ ~context.request.authorization_present
              /\ \/ /\ context.resource.type = "psychotherapy_notes"
                    /\ purpose # "treatment"
                 \/ purpose \in {"marketing", "sale_of_phi"}
      THEN "authorization"
      ELSE IF "provider" \in context.user.roles THEN "provider"
      ELSE IF "payee" \in context.user.roles THEN "payee"
      ELSE IF "patient" \in context.user.roles THEN "patient"
      ELSE "otherwise"

\* The decisions each rule gives: whether it allows, and its reasons.
RuleDecisions ==
  [x \in {"non-PHI"} |->
     {<<TRUE, "Policy does not apply to non-PHI resources.">>}]
  @@ [x \in {"emergency"} |->
     {<<TRUE, "Access permitted under emergency provisions.">>}]
  @@ [x \in {"restriction"} |->
     {<<FALSE, "Disclosure is blocked by a patient-requested restriction.">>}]
  @@ [x \in {"deceased"} |->
     {<<TRUE, "Patient deceased for over 50 years; information is not considered PHI.">>}]
  @@ [x \in {"authorization"} |->
     {<<FALSE, "Disclosure of psychotherapy notes requires specific patient authorization.">>,
      <<FALSE, "Purpose requires patient authorization.">>}]
  @@ [x \in {"provider"} |->
     {<<TRUE, "Provider access permitted for a valid purpose.">>}]
  @@ [x \in {"payee"} |->
     {<<FALSE, "Payee role is prohibited from modifying clinical PHI to ensure data integrity.">>,
      <<FALSE, "Request exceeds the minimum necessary information for the user's role.">>,
      <<TRUE, "Payee access to non-clinical data permitted.">>}]
  @@ [x \in {"patient"} |->
     {<<FALSE, "Patient role can only access their own records.">>,
      <<TRUE, "Patient has a right of access to their own PHI; minimum necessary does not apply.">>}]
  @@ [x \in {"otherwise"} |->
     {<<FALSE, "User does not have a recognized HIPAA actor role (provider, payee, patient).">>}]

\* C34: the HIPAA policy returns the decision of the first triggering rule
\* in the fixed order non-PHI allow, emergency allow, patient-restriction
\* deny, deceased-over-50-years allow, authorization-gate deny, then the
\* actor branch (provider, payee, patient, otherwise deny); a payee asking
\* to write or delete a clinical PHI resource is denied whenever no earlier
\* rule triggers.
C34_FirstRuleWins ==
  ret.op = "hipaa_evaluate" =>
    LET context == ret.args[1]
    IN  /\ ~ret.raised
        /\ <<ret.val[1].allow, ret.val[1].reason>>
             \in RuleDecisions[FirstRule(context)]
        /\ (/\ FirstRule(context) = "payee"
            /\ context.resource.is_clinical
            /\ context.action \in {"write", "delete"}) => ~ret.val[1].allow

\* Whether the contract, block or entry a request addresses exists.
Addressed(op, param) ==
  IF op \in {"get_contract_endpoint", "propose_contract_endpoint"}
  THEN get_contract(contracts, param) # 0
  ELSE IF op \in {"verify_block_endpoint", "get_block_endpoint"}
  THEN get_block(blocks, param) # 0
  ELSE get_entry(entries, param) # 0

\* C35: every HTTP request that addresses a contract, ledger entry or block
\* that does not exist is answered with status 404.
C35_NotFoundIs404 ==
  (/\ ret.op \in {"get_contract_endpoint", "propose_contract_endpoint",
                  "verify_block_endpoint", "get_block_endpoint",
                  "get_entry_endpoint"}
   /\ ~Addressed(ret.op, ret.args[1])) => ret.val[1].status_code = 404

\* C36: between ledger operations, each stored block's entry_count is the
\* number of stored entries assigned to that block, for the open block as
\* well as for sealed blocks.
C36_EntryCountStored ==
  \A id \in 1..Len(blocks) :
    blocks[id].entry_count
      = Cardinality({i \in 1..Len(entries) : entries[i].block_id = id})

\* The tasks that are in _process_events: created by start() and not ended.
Consumers == {t \in Tasks : tasks[t].pc \in {"loop", "get", "eval"}}

\* C37: for any sequence of start() and stop() calls, at most one
\* processing task consumes the event queue while the engine runs; start()
\* while running, and stop() followed by start(), never leave two.
C37_OneConsumer == is_running => Cardinality(Consumers) <= 1

\* The stored blocks that are not sealed.
Unsealed == {id \in 1..Len(blocks) : ~Sealed(id)}

\* C38: at any time at most one block is unsealed, and it is the block with
\* the highest block_number, also after a new ProvenanceLedger instance is
\* opened on a store that holds an unsealed block and then appended to.
C38_OneUnsealedBlock ==
  /\ Cardinality(Unsealed) <= 1
  /\ \A id \in Unsealed : \A other \in 1..Len(blocks) :
       blocks[other].block_number <= blocks[id].block_number

\* The monitors of the evaluation that did not raise.
NotRaising ==
  SelectSeq(monitors, LAMBDA monitor : monitor.result.type # "raise")

\* C39: if a monitor raises during an evaluation, the evaluation still
\* completes: the remaining monitors run and the decision is computed from
\* their findings alone, the failing monitor contributing nothing to the
\* risk level.
C39_RaisingMonitorSkipped ==
  ret.op = "simulate_risk" =>
    /\ ~ret.raised
    /\ ret.val[1].evidence.violations
         = [i \in 1..Len(SelectSeq(NotRaising, LAMBDA monitor :
                                     monitor.result.type = "violation")) |->
              SelectSeq(NotRaising, LAMBDA monitor :
                          monitor.result.type = "violation")[i].result]
    /\ ret.val[1].evidence.anomalies
         = [i \in 1..Len(SelectSeq(NotRaising, LAMBDA monitor :
                                     monitor.result.type = "anomaly")) |->
              SelectSeq(NotRaising, LAMBDA monitor :
                          monitor.result.type = "anomaly")[i].result]
    /\ ret.val[1].risk_level
         = IF ret.val[1].evidence.violations = <<>>
              /\ ret.val[1].evidence.anomalies = <<>>
           THEN RiskLevel.LOW
           ELSE _assess_risk_level(ret.val[1].evidence.violations,
                                   ret.val[1].evidence.anomalies)

\* A monitor raised before a monitor that reports a critical violation,
\* and the action is halted.
C39_Witness ==
  /\ ret.op = "simulate_risk"
  /\ Len(monitors) >= 2
  /\ monitors[1].result.type = "raise"
  /\ \E i \in 2..Len(monitors) : monitors[i].result = Result("violation", "critical")
  /\ ret.val[1].decision_type = DecisionType.HALT

\* C40: simulations do not influence real decisions: the decision for an
\* action is the same whether or not simulate_risk was called beforehand,
\* a simulation leaving the state of the registered monitors unchanged.
C40_SimulationsDoNotInfluence ==
  ret.op = "_evaluate_action" => ret.val[1] = unsimulated.decision

====
